---- MODULE Spec2Model ----
(***************************************************************************)
(* Model of the loan engine of loan-emi-forecast-calc:                     *)
(*   src/src/utils/loanCalculations.ts, calculateLoanEMI (lines 221-433).  *)
(*                                                                         *)
(* Numbers.  A JavaScript number is an IEEE-754 double: a sign, a          *)
(* significand of fixed width and an exponent, with NaN and +-Infinity,    *)
(* and every arithmetic operation rounds its exact result to the nearest   *)
(* representable value (ties to even).  The model keeps that structure and *)
(* narrows the significand to Digits decimal digits so that the arithmetic *)
(* fits TLC's integers: a number is [m |-> significand, e |-> exponent],   *)
(* standing for m * 10^e.  Rounding, absorption of a small addend, NaN     *)
(* from 0/0 and Infinity from x/0 behave as they do for doubles; only the  *)
(* magnitude at which rounding becomes visible is smaller.                 *)
(*                                                                         *)
(* Dates.  Every Date of the code is the first day of a month at local     *)
(* midnight, so a Date is the month index year*12 + (month-1); an Invalid  *)
(* Date (time value NaN) is InvalidDate.  getTime() differences are whole  *)
(* days (no daylight-saving shift is modelled).                            *)
(***************************************************************************)
EXTENDS Integers, Sequences, FiniteSets, TLC

----------------------------------------------------------------------------
(* Floating-point numbers                                                  *)

Digits == 4

RECURSIVE Pow10(_)
Pow10(k) == IF k <= 0 THEN 1 ELSE 10 * Pow10(k - 1)

MantMax == Pow10(Digits)
MantMin == Pow10(Digits - 1)

SpecialExp == 9999
NaN == [m |-> 0, e |-> SpecialExp]
PosInf == [m |-> 1, e |-> SpecialExp]
NegInf == [m |-> -1, e |-> SpecialExp]
Zero == [m |-> 0, e |-> 0]

IsNaN(a) == a = NaN
IsInf(a) == a = PosInf \/ a = NegInf
isFinite(a) == ~IsNaN(a) /\ ~IsInf(a)

Abs(n) == IF n < 0 THEN -n ELSE n
Sgn(n) == IF n < 0 THEN -1 ELSE IF n > 0 THEN 1 ELSE 0

\* The nearest number to s * n * 10^e (n >= 0, s the sign); sticky says that
\* nonzero digits were already dropped below n.  Ties go to the even
\* significand.
RECURSIVE Norm(_, _, _, _)
Norm(s, n, e, sticky) ==
  IF n = 0 THEN Zero
  ELSE IF n < MantMin /\ ~sticky THEN Norm(s, n * 10, e - 1, FALSE)
  ELSE IF n < MantMax THEN [m |-> s * n, e |-> e]
  ELSE IF n >= 10 * MantMax
    THEN Norm(s, n \div 10, e + 1, sticky \/ (n % 10 # 0))
  ELSE LET q == n \div 10
           d == n % 10
           up == d > 5 \/ (d = 5 /\ (sticky \/ q % 2 = 1))
           r == IF up THEN q + 1 ELSE q
       IN  IF r = MantMax THEN [m |-> s * MantMin, e |-> e + 2]
                          ELSE [m |-> s * r, e |-> e + 1]

\* An integer as a number (exact up to Digits digits).
Num(n) == Norm(Sgn(n), Abs(n), 0, FALSE)
\* The decimal n * 10^e as a number.
Dec(n, e) == Norm(Sgn(n), Abs(n), e, FALSE)

FNeg(a) == IF IsNaN(a) THEN NaN ELSE [m |-> -a.m, e |-> a.e]

FMul(a, b) ==
  IF IsNaN(a) \/ IsNaN(b) THEN NaN
  ELSE IF IsInf(a) \/ IsInf(b)
    THEN IF a.m = 0 \/ b.m = 0 THEN NaN
         ELSE IF Sgn(a.m) * Sgn(b.m) > 0 THEN PosInf ELSE NegInf
  ELSE Norm(Sgn(a.m) * Sgn(b.m), Abs(a.m) * Abs(b.m), a.e + b.e, FALSE)

FDiv(a, b) ==
  IF IsNaN(a) \/ IsNaN(b) THEN NaN
  ELSE IF IsInf(a)
    THEN IF IsInf(b) THEN NaN
         ELSE IF Sgn(a.m) * (IF b.m < 0 THEN -1 ELSE 1) > 0 THEN PosInf ELSE NegInf
  ELSE IF IsInf(b) THEN Zero
  ELSE IF b.m = 0
    THEN IF a.m = 0 THEN NaN ELSE IF a.m > 0 THEN PosInf ELSE NegInf
  ELSE LET n == Abs(a.m) * 10 * MantMax
           q == n \div Abs(b.m)
           rem == n % Abs(b.m)
       IN  Norm(Sgn(a.m) * Sgn(b.m), q, a.e - b.e - Digits - 1, rem # 0)

\* a + b for finite a, b with a.e >= b.e (or a zero operand).
AddAligned(a, b) ==
  IF b.m = 0 THEN a
  ELSE IF a.m = 0 THEN b
  ELSE IF a.e - b.e > Digits + 1 THEN a
  ELSE LET n == a.m * Pow10(a.e - b.e) + b.m
       IN  Norm(Sgn(n), Abs(n), b.e, FALSE)

FAdd(a, b) ==
  IF IsNaN(a) \/ IsNaN(b) THEN NaN
  ELSE IF IsInf(a) THEN (IF IsInf(b) /\ a # b THEN NaN ELSE a)
  ELSE IF IsInf(b) THEN b
  ELSE IF a.m # 0 /\ (b.m = 0 \/ a.e >= b.e) THEN AddAligned(a, b)
  ELSE AddAligned(b, a)

FSub(a, b) == FAdd(a, FNeg(b))

\* The comparisons of the language: every comparison with NaN is false.
FLt(a, b) == ~IsNaN(a) /\ ~IsNaN(b) /\ a # b /\ FSub(a, b).m < 0
FGt(a, b) == FLt(b, a)
FLe(a, b) == ~IsNaN(a) /\ ~IsNaN(b) /\ (a = b \/ FLt(a, b))
FGe(a, b) == FLe(b, a)

\* Math.min / Math.max: NaN if either argument is NaN.
MathMin(a, b) == IF IsNaN(a) \/ IsNaN(b) THEN NaN ELSE IF FLt(b, a) THEN b ELSE a
MathMax(a, b) == IF IsNaN(a) \/ IsNaN(b) THEN NaN ELSE IF FGt(b, a) THEN b ELSE a

\* Number.isInteger
IsInteger(a) == isFinite(a) /\ (a.e >= 0 \/ a.m % Pow10(-a.e) = 0)

\* ToIntegerOrInfinity on a finite number: truncation toward zero.
Trunc(a) ==
  IF a.e >= 0 THEN a.m * Pow10(a.e)
  ELSE Sgn(a.m) * (Abs(a.m) \div Pow10(-a.e))

\* Math.ceil on a finite number, as an integer.
Ceil(a) == IF IsInteger(a) \/ a.m < 0 THEN Trunc(a) ELSE Trunc(a) + 1

\* Math.round: the nearest integer, a half going up; NaN and the infinities
\* are returned as they are.
MathRound(a) ==
  IF ~isFinite(a) \/ a.e >= 0 THEN a
  ELSE IF a.e < -(Digits + 1) THEN Zero
  ELSE Num((2 * a.m + Pow10(-a.e)) \div (2 * Pow10(-a.e)))

\* Math.pow(b, n) for an integer n >= 0, by squaring.
RECURSIVE MathPow(_, _)
MathPow(b, n) ==
  IF n <= 0 THEN Num(1)
  ELSE IF n = 1 THEN b
  ELSE LET h == MathPow(b, n \div 2)
           sq == FMul(h, h)
       IN  IF n % 2 = 0 THEN sq ELSE FMul(sq, b)


\* Math.pow(b, x) for a finite x >= 0: the integer part of the exponent by
\* squaring, a fractional part f to first order, b^f = 1 + f * (b - 1).
MathPowNum(b, x) ==
  LET n == Trunc(x)
      f == FSub(x, Num(n))
      whole == MathPow(b, n)
  IN  IF f = Zero THEN whole
      ELSE FMul(whole, FAdd(Num(1), FMul(f, FSub(b, Num(1)))))

\* Math.ceil(Math.log(x) / Math.log(b)) for finite x >= 1 and b > 1: the least
\* n with b^n >= x.
RECURSIVE CeilLog(_, _, _, _)
CeilLog(x, b, n, acc) ==
  IF FGe(acc, x) THEN n ELSE CeilLog(x, b, n + 1, FMul(acc, b))

----------------------------------------------------------------------------
(* Dates                                                                   *)

InvalidDate == -1

\* new Date(year, month - 1): out-of-range months carry into the year.
NewDate(year, month) == year * 12 + (month - 1)
getFullYear(d) == d \div 12
getMonth(d) == d % 12

IsLeapYear(y) == (y % 4 = 0 /\ y % 100 # 0) \/ y % 400 = 0

DaysBeforeMonth == <<0, 31, 59, 90, 120, 151, 181, 212, 243, 273, 304, 334>>

\* getTime() in days: the day number of the first of the month d.
DayNumber(d) ==
  LET y == getFullYear(d)
      m == getMonth(d)
  IN  365 * y + (y - 1) \div 4 - (y - 1) \div 100 + (y - 1) \div 400
      + DaysBeforeMonth[m + 1] + (IF m >= 2 /\ IsLeapYear(y) THEN 1 ELSE 0)

DaysPerMonthDivisor == 30

----------------------------------------------------------------------------
(* calculateLoanEMI, loanCalculations.ts lines 221-433                     *)

MaxSafePrincipal == Dec(1, 12)
MaxSafeRate == Num(100)
MaxSafeTenure == Num(50)
Epsilon == Dec(1, -2)
MinStartYear == 1900
MaxStartYear == 2200

Frequencies == {"one-time", "monthly", "quarterly", "half-yearly", "yearly"}
Strategies == {"reduce-tenure", "reduce-emi"}

\* Lines 229-244: the message of the validation that fails, "" if none does.
ValidationError(principal, annualRate, tenureYears, startMonth, startYear) ==
  IF ~isFinite(principal) \/ FLe(principal, Zero)
    THEN "Principal must be a positive number"
  ELSE IF ~isFinite(annualRate) \/ FLt(annualRate, Zero)
    THEN "Annual rate must be a non-negative number"
  ELSE IF ~isFinite(tenureYears) \/ FLe(tenureYears, Zero)
    THEN "Tenure must be a positive number"
  ELSE IF startMonth < 1 \/ startMonth > 12
    THEN "Start month must be an integer between 1 and 12"
  ELSE IF startYear < MinStartYear \/ startYear > MaxStartYear
    THEN "Start year must be a valid year"
  ELSE ""

\* Line 261.
Factor(monthlyRate, totalMonths) ==
  MathPowNum(FAdd(Num(1), monthlyRate), totalMonths)

\* Lines 256-267: the installment for balance p over n months at monthly rate
\* r.
EMIFormula(p, r, factor) ==
  FDiv(FMul(FMul(p, r), factor), FSub(factor, Num(1)))

\* Lines 256-267 with the zero-rate installment taken per year.
NominalEMIPerYear(safePrincipal, monthlyRate, totalMonths) ==
  IF monthlyRate = Zero THEN FDiv(safePrincipal, FDiv(totalMonths, Num(12)))
  ELSE EMIFormula(safePrincipal, monthlyRate, Factor(monthlyRate, totalMonths))

NominalEMI(safePrincipal, monthlyRate, totalMonths) ==
  IF monthlyRate = Zero THEN FDiv(safePrincipal, totalMonths)
  ELSE EMIFormula(safePrincipal, monthlyRate, Factor(monthlyRate, totalMonths))

\* Lines 282-309: the events of one instruction.
MonthIncrement(frequency) ==
  IF frequency = "monthly" THEN 1
  ELSE IF frequency = "quarterly" THEN 3
  ELSE IF frequency = "half-yearly" THEN 6 ELSE 12

Event(month, year, payment) ==
  [month |-> month, year |-> year,
   amount |-> payment.amount, strategy |-> payment.strategy]

RECURSIVE Recurring(_, _, _, _)
Recurring(currentDate, endDate, monthIncrement, payment) ==
  IF currentDate <= endDate
    THEN <<Event(getMonth(currentDate) + 1, getFullYear(currentDate), payment)>>
         \o Recurring(currentDate + monthIncrement, endDate, monthIncrement, payment)
  ELSE <<>>

ExpandOne(payment, tenureYears, startMonth, startYear) ==
  LET startDate == NewDate(payment.year, payment.month)
      endDate == NewDate(startYear + Trunc(tenureYears), startMonth)
  IN  IF payment.frequency = "one-time"
        THEN <<Event(payment.month, payment.year, payment)>>
      ELSE Recurring(startDate, endDate, MonthIncrement(payment.frequency), payment)

RECURSIVE Expand(_, _, _, _)
Expand(partPayments, tenureYears, startMonth, startYear) ==
  IF partPayments = <<>> THEN <<>>
  ELSE ExpandOne(Head(partPayments), tenureYears, startMonth, startYear)
       \o Expand(Tail(partPayments), tenureYears, startMonth, startYear)

\* Lines 312-316: Array.prototype.sort with the date comparator (stable).
RECURSIVE InsertByDate(_, _)
InsertByDate(ev, sorted) ==
  IF sorted = <<>> THEN <<ev>>
  ELSE IF NewDate(Head(sorted).year, Head(sorted).month) <= NewDate(ev.year, ev.month)
    THEN <<Head(sorted)>> \o InsertByDate(ev, Tail(sorted))
  ELSE <<ev>> \o sorted

RECURSIVE SortByDate(_)
SortByDate(events) ==
  IF events = <<>> THEN <<>>
  ELSE InsertByDate(events[Len(events)], SortByDate(SubSeq(events, 1, Len(events) - 1)))

\* Lines 340-342: the events of the current month, in list order.
PartPaymentsThisMonth(sortedPartPayments, currentYear, currentMonth) ==
  SelectSeq(sortedPartPayments,
            LAMBDA pp : pp.year = currentYear /\ pp.month = currentMonth)

\* Line 348 keeping the amount of the last event only.
SumAmountsLastOnly(events) ==
  IF events = <<>> THEN Zero ELSE events[Len(events)].amount

\* Line 348: reduce((sum, pp) => sum + pp.amount, 0).
RECURSIVE SumAmounts(_)
SumAmounts(events) ==
  IF events = <<>> THEN Zero
  ELSE FAdd(SumAmounts(SubSeq(events, 1, Len(events) - 1)),
            events[Len(events)].amount)

\* Lines 326, 370, 371 with the strategy of the events ignored.
HasStrategyAny(events, strategy) == Len(events) > 0

\* Lines 326, 370, 371: events.some(pp => pp.strategy === strategy).
HasStrategy(events, strategy) ==
  \E i \in 1..Len(events) : events[i].strategy = strategy

\* Line 362 without the clamp: the whole sum of the month is applied.
EffectivePartPaymentUnclamped(partPaymentAmount, remainingBalance, principalAmount) ==
  partPaymentAmount

\* Line 362 with the sign of the applied payment inverted.
EffectivePartPaymentAdded(partPaymentAmount, remainingBalance, principalAmount) ==
  FNeg(MathMin(partPaymentAmount,
               MathMax(Zero, FSub(remainingBalance, principalAmount))))

\* Line 362.
EffectivePartPayment(partPaymentAmount, remainingBalance, principalAmount) ==
  MathMin(partPaymentAmount,
          MathMax(Zero, FSub(remainingBalance, principalAmount)))

\* Lines 376-378: the end date after a reduce-tenure payment.  The quotient of
\* logarithms is finite only for a finite ratio >= 1 and a base > 1; a NaN or
\* infinite month count makes setMonth produce an Invalid Date.
AdjustedEndAfterTenure(currentDate, currentEMI, remainingBalance, monthlyRate) ==
  LET ratio == FDiv(currentEMI, FSub(currentEMI, FMul(remainingBalance, monthlyRate)))
      base == FAdd(Num(1), monthlyRate)
  IN  IF isFinite(ratio) /\ FGe(ratio, Num(1)) /\ FGt(base, Num(1))
        THEN currentDate + CeilLog(ratio, base, 0, Num(1))
      ELSE InvalidDate

\* Line 387: Math.ceil(milliseconds between the dates / 30 days), for valid
\* dates.
RemainingMonths(adjustedEndDate, currentDate) ==
  -((DayNumber(currentDate) - DayNumber(adjustedEndDate)) \div DaysPerMonthDivisor)

\* Lines 387-394: the installment after a reduce-emi payment.  With an Invalid
\* adjusted end date remainingMonths is NaN and the test on line 388 fails.
RecomputedEMI(currentEMI, remainingBalance, monthlyRate, adjustedEndDate, currentDate) ==
  IF adjustedEndDate = InvalidDate THEN currentEMI
  ELSE LET remainingMonths == RemainingMonths(adjustedEndDate, currentDate)
       IN  IF remainingMonths > 1 /\ FGt(remainingBalance, Zero)
             THEN EMIFormula(remainingBalance, monthlyRate,
                             MathPow(FAdd(Num(1), monthlyRate), remainingMonths))
           ELSE currentEMI

\* Lines 229-272: the message of the error thrown, "" when the call goes on.
ThrownError(principal, annualRate, tenureYears, startMonth, startYear) ==
  LET invalid == ValidationError(principal, annualRate, tenureYears, startMonth, startYear)
      safePrincipal == MathMin(principal, MaxSafePrincipal)
      monthlyRate == FDiv(FDiv(MathMin(annualRate, MaxSafeRate), Num(12)), Num(100))
      totalMonths == FMul(MathMin(tenureYears, MaxSafeTenure), Num(12))
      factor == Factor(monthlyRate, totalMonths)
      emi == NominalEMI(safePrincipal, monthlyRate, totalMonths)
  IN  IF invalid # "" THEN invalid
      ELSE IF monthlyRate # Zero /\ (~isFinite(factor) \/ FLe(factor, Num(1)))
        THEN "Invalid calculation parameters - values cause mathematical overflow"
      ELSE IF ~isFinite(emi) \/ FLe(emi, Zero)
        THEN "Invalid EMI calculation result"
      ELSE ""

\* Lines 246-329: the locals of the call when the month loop is entered.
Prologue(principal, annualRate, tenureYears, startMonth, startYear, partPayments) ==
  LET safePrincipal == MathMin(principal, MaxSafePrincipal)
      monthlyRate == FDiv(FDiv(MathMin(annualRate, MaxSafeRate), Num(12)), Num(100))
      totalMonths == FMul(MathMin(tenureYears, MaxSafeTenure), Num(12))
      emi == NominalEMI(safePrincipal, monthlyRate, totalMonths)
      sortedPartPayments ==
        SortByDate(Expand(partPayments, tenureYears, startMonth, startYear))
      originalEndDate == NewDate(startYear, startMonth) + Trunc(totalMonths)
  IN  [safePrincipal |-> safePrincipal,
       monthlyRate |-> monthlyRate,
       totalMonths |-> totalMonths,
       emi |-> emi,
       sortedPartPayments |-> sortedPartPayments,
       originalEndDate |-> originalEndDate,
       hasReduceEMIPayments |-> HasStrategy(sortedPartPayments, "reduce-emi"),
       remainingBalance |-> safePrincipal,
       totalInterestPaid |-> Zero,
       principalPaidTotal |-> Zero,
       currentEMI |-> emi,
       currentDate |-> NewDate(startYear, startMonth),
       monthCount |-> 0,
       adjustedEndDate |-> originalEndDate,
       schedule |-> <<>>]

\* Line 331 with the month counter allowed to reach totalMonths.
LoopConditionOffByOne(f) ==
  /\ FGt(f.remainingBalance, Epsilon)
  /\ IF f.hasReduceEMIPayments
       THEN f.currentDate <= f.originalEndDate
       ELSE FLe(Num(f.monthCount), f.totalMonths)

\* Line 331 with the balance compared with zero instead of 0.01.
LoopConditionNoEpsilon(f) ==
  /\ FGt(f.remainingBalance, Zero)
  /\ IF f.hasReduceEMIPayments
       THEN f.currentDate < f.originalEndDate
       ELSE FLt(Num(f.monthCount), f.totalMonths)

\* Line 331: the condition of the month loop.
LoopCondition(f) ==
  /\ FGt(f.remainingBalance, Epsilon)
  /\ IF f.hasReduceEMIPayments
       THEN f.currentDate < f.originalEndDate
       ELSE FLt(Num(f.monthCount), f.totalMonths)

\* Lines 367-400 with the installment recomputed before the end date is
\* adjusted: the recomputation reads the end date in force before the month.
ApplyStrategiesEMIFirst(f, remainingBalance, partPaymentsThisMonth, partPaymentAmount) ==
  LET paid == FGt(partPaymentAmount, Zero)
      hasReduceEMIPayment == HasStrategy(partPaymentsThisMonth, "reduce-emi")
      hasReduceTenurePayment == HasStrategy(partPaymentsThisMonth, "reduce-tenure")
      currentEMI ==
        IF paid /\ hasReduceEMIPayment
          THEN RecomputedEMI(f.currentEMI, remainingBalance, f.monthlyRate,
                             f.adjustedEndDate, f.currentDate)
        ELSE f.currentEMI
      adjustedEndDate ==
        IF paid /\ hasReduceTenurePayment /\ FGt(remainingBalance, Zero)
          THEN AdjustedEndAfterTenure(f.currentDate, f.currentEMI,
                                      remainingBalance, f.monthlyRate)
        ELSE f.adjustedEndDate
  IN  [adjustedEndDate |-> adjustedEndDate, currentEMI |-> currentEMI]

\* Lines 367-400: the end date and the installment after the part payments of
\* the month, remainingBalance being the balance after them.
ApplyStrategies(f, remainingBalance, partPaymentsThisMonth, partPaymentAmount) ==
  LET paid == FGt(partPaymentAmount, Zero)
      hasReduceEMIPayment == HasStrategy(partPaymentsThisMonth, "reduce-emi")
      hasReduceTenurePayment == HasStrategy(partPaymentsThisMonth, "reduce-tenure")
      adjustedEndDate ==
        IF paid /\ hasReduceTenurePayment /\ FGt(remainingBalance, Zero)
          THEN AdjustedEndAfterTenure(f.currentDate, f.currentEMI,
                                      remainingBalance, f.monthlyRate)
        ELSE f.adjustedEndDate
      currentEMI ==
        IF paid /\ hasReduceEMIPayment
          THEN RecomputedEMI(f.currentEMI, remainingBalance, f.monthlyRate,
                             adjustedEndDate, f.currentDate)
        ELSE f.currentEMI
  IN  [adjustedEndDate |-> adjustedEndDate, currentEMI |-> currentEMI]

\* Lines 332-423 with the entry pushed carrying the installment left by the
\* recomputation of lines 385-394.
IterateRecordingNewEMI(f) ==
  LET currentYear == getFullYear(f.currentDate)
      currentMonth == getMonth(f.currentDate) + 1
      interestAmount == FMul(f.remainingBalance, f.monthlyRate)
      principal0 == FSub(f.currentEMI, interestAmount)
      partPaymentsThisMonth ==
        PartPaymentsThisMonth(f.sortedPartPayments, currentYear, currentMonth)
      partPaymentAmount == SumAmounts(partPaymentsThisMonth)
      clamped == FGt(principal0, f.remainingBalance)
      principalAmount == IF clamped THEN f.remainingBalance ELSE principal0
      emiForThisMonth ==
        IF clamped THEN FAdd(interestAmount, principalAmount) ELSE f.currentEMI
      effectivePartPayment ==
        EffectivePartPayment(partPaymentAmount, f.remainingBalance, principalAmount)
      remainingBalance ==
        FSub(f.remainingBalance, FAdd(principalAmount, effectivePartPayment))
      strategies ==
        ApplyStrategies(f, remainingBalance, partPaymentsThisMonth, partPaymentAmount)
      adjustedEndDate == strategies.adjustedEndDate
      currentEMI == strategies.currentEMI
      entry == [month |-> currentMonth,
                year |-> currentYear,
                emiAmount |-> currentEMI,
                principalAmount |-> principalAmount,
                interestAmount |-> interestAmount,
                remainingBalance |-> MathMax(Zero, remainingBalance),
                partPayment |-> partPaymentAmount]
  IN  [f EXCEPT !.remainingBalance = remainingBalance,
                !.totalInterestPaid = FAdd(f.totalInterestPaid, interestAmount),
                !.principalPaidTotal =
                  FAdd(f.principalPaidTotal, FAdd(principalAmount, effectivePartPayment)),
                !.adjustedEndDate = adjustedEndDate,
                !.currentEMI = currentEMI,
                !.schedule = Append(f.schedule, entry),
                !.currentDate = f.currentDate + 1,
                !.monthCount = f.monthCount + 1]

\* Lines 332-423: one iteration of the month loop on the locals f.
Iterate(f) ==
  LET currentYear == getFullYear(f.currentDate)
      currentMonth == getMonth(f.currentDate) + 1
      interestAmount == FMul(f.remainingBalance, f.monthlyRate)
      principal0 == FSub(f.currentEMI, interestAmount)
      partPaymentsThisMonth ==
        PartPaymentsThisMonth(f.sortedPartPayments, currentYear, currentMonth)
      partPaymentAmount == SumAmounts(partPaymentsThisMonth)
      clamped == FGt(principal0, f.remainingBalance)
      principalAmount == IF clamped THEN f.remainingBalance ELSE principal0
      emiForThisMonth ==
        IF clamped THEN FAdd(interestAmount, principalAmount) ELSE f.currentEMI
      effectivePartPayment ==
        EffectivePartPayment(partPaymentAmount, f.remainingBalance, principalAmount)
      remainingBalance ==
        FSub(f.remainingBalance, FAdd(principalAmount, effectivePartPayment))
      strategies ==
        ApplyStrategies(f, remainingBalance, partPaymentsThisMonth, partPaymentAmount)
      adjustedEndDate == strategies.adjustedEndDate
      currentEMI == strategies.currentEMI
      entry == [month |-> currentMonth,
                year |-> currentYear,
                emiAmount |-> emiForThisMonth,
                principalAmount |-> principalAmount,
                interestAmount |-> interestAmount,
                remainingBalance |-> MathMax(Zero, remainingBalance),
                partPayment |-> partPaymentAmount]
  IN  [f EXCEPT !.remainingBalance = remainingBalance,
                !.totalInterestPaid = FAdd(f.totalInterestPaid, interestAmount),
                !.principalPaidTotal =
                  FAdd(f.principalPaidTotal, FAdd(principalAmount, effectivePartPayment)),
                !.adjustedEndDate = adjustedEndDate,
                !.currentEMI = currentEMI,
                !.schedule = Append(f.schedule, entry),
                !.currentDate = f.currentDate + 1,
                !.monthCount = f.monthCount + 1]

\* Lines 426-432: the value returned.
ReturnValue(f) ==
  [emi |-> f.emi,
   totalInterest |-> f.totalInterestPaid,
   totalAmount |-> FAdd(f.safePrincipal, f.totalInterestPaid),
   schedule |-> f.schedule]

\* The month loop run to its end.  The locals are bound as a value (g), so
\* that each iteration is computed once.
RECURSIVE RunLoop(_)
RunLoop(f) ==
  CHOOSE r \in {IF LoopCondition(g) THEN RunLoop(Iterate(g)) ELSE g : g \in {f}} : TRUE

\* The whole call as a function of its arguments: the value returned, or the
\* error thrown.
calculateLoanEMI(principal, annualRate, tenureYears, startMonth, startYear, partPayments) ==
  LET thrown == ThrownError(principal, annualRate, tenureYears, startMonth, startYear)
  IN  IF thrown # "" THEN [thrown |-> thrown]
      ELSE ReturnValue(RunLoop(Prologue(principal, annualRate, tenureYears,
                                        startMonth, startYear, partPayments)))

----------------------------------------------------------------------------
(* One call of calculateLoanEMI as a state machine                         *)

VARIABLES
  principal, annualRate, tenureYears, startMonth, startYear, partPayments,
  pc,       \* "start", "loop" (in the month loop), "done" or "thrown"; for
            \* LoanComparisonSection "effect" or "idle"
  f,        \* the locals of the call
  thrown,   \* the message of the error thrown
  result,   \* the value returned
  calls,    \* the number of the call under way with these arguments
  previous, \* the outcome of the call before it
  build,    \* the version of LoanComparisonSection mounted, "" when none is
  scenarios, \* LoanComparisonSection: the scenarios, in insertion order
  results,  \* LoanComparisonSection: the result kept for each scenario id
  affordability, \* LoanAffordabilityCalculator: its state, <<>> when not mounted
  form      \* PartPaymentSection: its state, <<>> when not mounted

args == <<principal, annualRate, tenureYears, startMonth, startYear, partPayments>>
earlier == <<calls, previous>>
comparison == <<build, scenarios, results>>
vars == <<args, pc, f, thrown, result, earlier, comparison, affordability, form>>

\* Arguments of the calls explored.
MaxPartPayments == 2

Principals ==
  {NaN, PosInf, Num(-100), Zero, Dec(5, -3), Dec(2, -2), Num(1200), Dec(2, 12)}
Rates ==
  {NaN, PosInf, Num(-1), Zero, Dec(1, -3), Num(12), Num(100), Num(120)}
Tenures ==
  {NaN, PosInf, Num(-1), Zero, Dec(1, -1), Dec(25, -2), Dec(5, -1), Num(1)}
StartMonths == {0, 1, 11, 12, 13}
StartYears == {1899, 2023, 2024, 2201}

LongTenures == {Num(50), Num(51)}
LongRates == {Zero, Num(100)}

PlanPrincipals == {Num(1200), Num(2200)}
PlanRates == {Zero, Num(12)}
PlanTenures == {Dec(5, -1), Num(1)}
PlanStarts == {<<1, 2024>>, <<11, 2023>>}
PlanOffsets == {-1, 0, 2, 5}
PlanAmounts == {Num(100), Num(5000)}
ExtraOffsets == {2, 4}

\* The instruction dated offset months after the loan's start.
Instruction(start, offset, amount, frequency, strategy) ==
  LET d == NewDate(start[2], start[1]) + offset
  IN  [month |-> getMonth(d) + 1, year |-> getFullYear(d), amount |-> amount,
       frequency |-> frequency, strategy |-> strategy]

FirstInstructions(start) ==
  {Instruction(start, o, a, fr, st) :
     o \in PlanOffsets, a \in PlanAmounts, fr \in Frequencies, st \in Strategies}

ExtraInstructions(start) ==
  {Instruction(start, o, Num(100), "one-time", st) :
     o \in ExtraOffsets, st \in Strategies}

RECURSIVE Plans(_, _)
Plans(start, n) ==
  IF n = 0 THEN {<<>>}
  ELSE IF n = 1 THEN {<<>>} \cup {<<i>> : i \in FirstInstructions(start)}
  ELSE Plans(start, n - 1)
       \cup {Append(p, i) : p \in {q \in Plans(start, n - 1) : Len(q) = n - 1},
                            i \in ExtraInstructions(start)}

TermsOnly ==
  /\ principal \in Principals
  /\ annualRate \in Rates
  /\ tenureYears \in Tenures
  /\ startMonth \in StartMonths
  /\ startYear \in StartYears
  /\ partPayments = <<>>

LongTerms ==
  /\ principal = Num(1200)
  /\ annualRate \in LongRates
  /\ tenureYears \in LongTenures
  /\ startMonth = 1
  /\ startYear = 2024
  /\ partPayments = <<>>

WithPartPayments ==
  /\ principal \in PlanPrincipals
  /\ annualRate \in PlanRates
  /\ tenureYears \in PlanTenures
  /\ \E start \in PlanStarts :
       /\ startMonth = start[1]
       /\ startYear = start[2]
       /\ partPayments \in Plans(start, MaxPartPayments)

\* A loan of one year ending on 1 May 2024, so that its last months run across
\* the February of a leap year, with one instruction of a small amount.
FebruaryStart == <<5, 2023>>
SmallAmount == Num(10)

AcrossFebruary ==
  /\ principal = Num(1200)
  /\ annualRate = Num(12)
  /\ tenureYears = Num(1)
  /\ startMonth = FebruaryStart[1]
  /\ startYear = FebruaryStart[2]
  /\ partPayments \in
       {<<Instruction(FebruaryStart, o, SmallAmount, fr, st)>> :
          o \in PlanOffsets, fr \in Frequencies, st \in Strategies}

\* A term of 1.2 months (0.1 years, which line 236 accepts) with one one-time
\* instruction.
FractionalStart == <<1, 2024>>

FractionalTerm ==
  /\ principal = Num(1200)
  /\ annualRate \in PlanRates
  /\ tenureYears = Dec(1, -1)
  /\ startMonth = FractionalStart[1]
  /\ startYear = FractionalStart[2]
  /\ partPayments \in
       {<<Instruction(FractionalStart, o, Num(100), "one-time", st)>> :
          o \in PlanOffsets, st \in Strategies}

Init ==
  /\ pc = "start"
  /\ f = <<>>
  /\ thrown = ""
  /\ result = <<>>
  /\ calls = 1
  /\ previous = <<>>
  /\ build = ""
  /\ scenarios = <<>>
  /\ results = <<>>
  /\ form = <<>>
  /\ affordability = <<>>
  /\ (TermsOnly \/ LongTerms \/ WithPartPayments \/ AcrossFebruary \/ FractionalTerm)

\* Lines 229-272: the call ends with an error.
Throw ==
  /\ pc = "start"
  /\ ThrownError(principal, annualRate, tenureYears, startMonth, startYear) # ""
  /\ thrown' = ThrownError(principal, annualRate, tenureYears, startMonth, startYear)
  /\ pc' = "thrown"
  /\ UNCHANGED <<args, f, result, earlier, comparison, affordability, form>>

\* Lines 278-329 with the schedule array kept from the call before.
EnterKeepingSchedule ==
  /\ pc = "start"
  /\ ThrownError(principal, annualRate, tenureYears, startMonth, startYear) = ""
  /\ f' = [Prologue(principal, annualRate, tenureYears, startMonth, startYear,
                    partPayments)
             EXCEPT !.schedule = IF calls = 1 THEN <<>> ELSE f.schedule]
  /\ pc' = "loop"
  /\ UNCHANGED <<args, thrown, result, earlier, comparison, affordability, form>>

\* Lines 229-329: the arguments pass and the month loop is entered.
Enter ==
  /\ pc = "start"
  /\ ThrownError(principal, annualRate, tenureYears, startMonth, startYear) = ""
  /\ f' = Prologue(principal, annualRate, tenureYears, startMonth, startYear,
                   partPayments)
  /\ pc' = "loop"
  /\ UNCHANGED <<args, thrown, result, earlier, comparison, affordability, form>>

\* Lines 331-424: one month.
MonthStep ==
  /\ pc = "loop"
  /\ LoopCondition(f)
  /\ f' = Iterate(f)
  /\ UNCHANGED <<args, pc, thrown, result, earlier, comparison, affordability, form>>

\* Lines 426-432: the loop is over and the result is returned.
Return ==
  /\ pc = "loop"
  /\ ~LoopCondition(f)
  /\ result' = ReturnValue(f)
  /\ pc' = "done"
  /\ UNCHANGED <<args, f, thrown, earlier, comparison, affordability, form>>

Next == Throw \/ Enter \/ MonthStep \/ Return

Spec == Init /\ [][Next]_vars

\* The scheduler runs the call to its end.
FairSpec == Spec /\ WF_vars(Next)

\* What a call hands to its caller: the value returned or the error thrown.
Outcome == IF pc = "thrown" THEN [thrown |-> thrown] ELSE result

\* The caller calls again with the same arguments.  Nothing of the first call
\* is reset here: whatever the second call does not set itself is left over.
CallAgain ==
  /\ pc \in {"done", "thrown"}
  /\ calls = 1
  /\ calls' = 2
  /\ previous' = Outcome
  /\ pc' = "start"
  /\ UNCHANGED <<args, f, thrown, result, comparison, affordability, form>>

NextWithRepeat == Next \/ CallAgain

\* Two calls in a row with the same arguments.
TwoCalls == Init /\ [][NextWithRepeat]_vars

----------------------------------------------------------------------------
(* LoanComparisonSection                                                   *)

\* The repository holds two versions of the component: the one of
\* src/components/LoanComparisonSection.tsx, whose scenarios carry part
\* payments, and the one of part_005, whose scenarios do not.
WithScenarioPayments == "LoanComparisonSection.tsx"
WithoutScenarioPayments == "part_005"
Builds == {WithScenarioPayments, WithoutScenarioPayments}

\* Scenario ids: "base", "scenario-1" and `scenario-${Date.now()}`.
BaseId == <<"base", 0>>
FirstId == <<"scenario", 1>>
Clock == {1700}
ScenarioLimit == 4

LoanScenario(id, loanAmount, interestRate, loanTenure, payments) ==
  [id |-> id, loanAmount |-> loanAmount, interestRate |-> interestRate,
   loanTenure |-> loanTenure, partPayments |-> payments]

\* The part payments the base scenario is given from the main loan.
BasePayments(b, basePartPayments) ==
  IF b = WithScenarioPayments THEN basePartPayments ELSE <<>>

\* useState initializer: the base scenario and "Scenario 1" at base rate - 0.5.
InitialScenarios(b, baseAmount, baseRate, baseTenure, basePartPayments) ==
  <<LoanScenario(BaseId, baseAmount, baseRate, baseTenure,
                 BasePayments(b, basePartPayments)),
    LoanScenario(FirstId, baseAmount, FSub(baseRate, Dec(5, -1)), baseTenure, <<>>)>>

\* Values typed into a scenario's fields.
TypedAmounts == {}
TypedRates == {Num(9), Num(12), Num(-1)}
TypedTenures == {Num(1)}

\* Main loans the component is mounted on: 1200 over half a year from 1/2024, at
\* 12% with and without a part payment, and at 0%, for which "Scenario 1" has
\* a negative rate.
BaseAmount == Num(1200)
BaseRates == {Num(12), Zero}
BaseTenure == Dec(5, -1)
BaseStart == <<1, 2024>>
BasePlans ==
  {<<>>,
   <<Instruction(BaseStart, 2, Num(100), "one-time", "reduce-tenure")>>}

\* addPartPaymentToScenario: a one-time reduce-tenure payment of 100000 one
\* year after the start.
NewPayment(sm, sy) ==
  [month |-> sm, year |-> sy + 1, amount |-> Dec(1, 5),
   frequency |-> "one-time", strategy |-> "reduce-tenure"]

MaxScenarioPayments == 1

\* The call made for one scenario by the effect that computes the results.
CalcScenario(b, scenario, sm, sy) ==
  calculateLoanEMI(scenario.loanAmount, scenario.interestRate, scenario.loanTenure,
                   sm, sy,
                   IF b = WithScenarioPayments THEN scenario.partPayments ELSE <<>>)

ToScenarioResult(calc) ==
  [emi |-> calc.emi, totalInterest |-> calc.totalInterest,
   totalAmount |-> calc.totalAmount, tenureMonths |-> Len(calc.schedule)]

\* A call of the effect throws.  Nothing catches it: the component is
\* unmounted and its state is gone.
Throws(scens, sm, sy) ==
  \E i \in 1..Len(scens) :
    ThrownError(scens[i].loanAmount, scens[i].interestRate,
                scens[i].loanTenure, sm, sy) # ""

\* The index of the last scenario of id.
LastWithId(scens, id) ==
  CHOOSE i \in 1..Len(scens) :
    /\ scens[i].id = id
    /\ \A j \in (i + 1)..Len(scens) : scens[j].id # id

\* Lines 95-114 (part_005: 126-145): what the effect that computes the results
\* hands to setResults when no call throws.
Evaluate(b, scens, sm, sy) ==
  LET calcs == [i \in 1..Len(scens) |-> CalcScenario(b, scens[i], sm, sy)]
  IN  [id \in {scens[i].id : i \in 1..Len(scens)} |->
         ToScenarioResult(calcs[LastWithId(scens, id)])]

ScenarioIds == {scenarios[i].id : i \in 1..Len(scenarios)}
Mounted == build # ""

\* The component is mounted on a main loan: useState gives the two initial
\* scenarios and no results, and the effect is still to run.  Here pc is
\* "effect" while the scenarios have changed and the effect has not run since,
\* and "idle" otherwise.
ComparisonInit ==
  /\ pc = "effect"
  /\ f = <<>>
  /\ thrown = ""
  /\ result = <<>>
  /\ calls = 1
  /\ previous = <<>>
  /\ principal = BaseAmount
  /\ annualRate \in BaseRates
  /\ tenureYears = BaseTenure
  /\ startMonth = BaseStart[1]
  /\ startYear = BaseStart[2]
  /\ partPayments \in BasePlans
  /\ build \in Builds
  /\ scenarios = InitialScenarios(build, principal, annualRate, tenureYears,
                                  partPayments)
  /\ results = <<>>
  /\ form = <<>>
  /\ affordability = <<>>

\* useEffect on [scenarios, startMonth, startYear]: every scenario is computed
\* and the results are replaced.  When a call throws, the component is
\* unmounted.
ComputeResults ==
  /\ Mounted
  /\ pc = "effect"
  /\ pc' = "idle"
  /\ IF Throws(scenarios, startMonth, startYear)
       THEN build' = "" /\ scenarios' = <<>> /\ results' = <<>>
     ELSE /\ results' = Evaluate(build, scenarios, startMonth, startYear)
          /\ UNCHANGED <<build, scenarios, form>>
  /\ UNCHANGED <<args, f, thrown, result, earlier, affordability, form>>

\* setScenarios from an event handler: the effect is due.
SetScenarios(scens) ==
  /\ Mounted
  /\ pc = "idle"
  /\ scenarios' = scens
  /\ pc' = "effect"
  /\ UNCHANGED <<args, f, thrown, result, earlier, build, results, affordability, form>>

\* Date.now() does not go back: the id made from it is later than every id
\* made before.
Later(now) ==
  \A id \in ScenarioIds : id[1] = "scenario" => id[2] < now

\* addScenario without the check of the length.
addScenarioAtUnbounded(clock) ==
  \E now \in clock :
    /\ Later(now)
    /\ SetScenarios(Append(scenarios,
         LoanScenario(<<"scenario", now>>, principal, annualRate, tenureYears, <<>>)))

\* addScenario at a time of clock: a copy of the main loan's terms under the
\* id `scenario-${Date.now()}`, unless the list holds 4 scenarios.
addScenarioAt(clock) ==
  /\ Len(scenarios) < ScenarioLimit
  /\ \E now \in clock :
       /\ Later(now)
       /\ SetScenarios(Append(scenarios,
            LoanScenario(<<"scenario", now>>, principal, annualRate, tenureYears, <<>>)))

addScenario == addScenarioAt(Clock)

removeScenario ==
  \E id \in ScenarioIds :
    /\ id # BaseId
    /\ SetScenarios(SelectSeq(scenarios, LAMBDA sc : sc.id # id))

\* { ...s, ...updates }
Spread(sc, updates) ==
  [k \in DOMAIN sc |-> IF k \in DOMAIN updates THEN updates[k] ELSE sc[k]]

TypedUpdates ==
  {[loanAmount |-> v] : v \in TypedAmounts}
    \cup {[interestRate |-> v] : v \in TypedRates}
    \cup {[loanTenure |-> v] : v \in TypedTenures}

\* updateScenario, from the inputs of a scenario: those of the base scenario
\* are disabled.
updateScenarioWith(typed) ==
  \E id \in ScenarioIds \ {BaseId}, updates \in typed :
    SetScenarios([i \in 1..Len(scenarios) |->
                    IF scenarios[i].id = id THEN Spread(scenarios[i], updates)
                    ELSE scenarios[i]])

updateScenario == updateScenarioWith(TypedUpdates)

\* addPartPaymentToScenario (LoanComparisonSection.tsx only), from the "Add"
\* button, which the base scenario does not have.
addPartPaymentToScenario ==
  /\ build = WithScenarioPayments
  /\ \E i \in 1..Len(scenarios) :
       /\ scenarios[i].id # BaseId
       /\ Len(scenarios[i].partPayments) < MaxScenarioPayments
       /\ SetScenarios([scenarios EXCEPT
                          ![i].partPayments =
                            Append(@, NewPayment(startMonth, startYear))])

removePartPaymentFromScenario ==
  /\ build = WithScenarioPayments
  /\ \E i \in 1..Len(scenarios) :
       \E k \in 1..Len(scenarios[i].partPayments) :
         /\ scenarios[i].id # BaseId
         /\ SetScenarios([scenarios EXCEPT
                             ![i].partPayments =
                              SubSeq(@, 1, k - 1) \o SubSeq(@, k + 1, Len(@))])

ComparisonNext ==
  \/ ComputeResults
  \/ addScenario
  \/ removeScenario
  \/ updateScenario
  \/ addPartPaymentToScenario
  \/ removePartPaymentFromScenario

ComparisonSpec == ComparisonInit /\ [][ComparisonNext]_vars

Null == [null |-> TRUE]

\* The list of scenarios of part_005 over a longer time: mounted on what an
\* earlier mount has saved, with scenarios added at three times and the main
\* loan's terms changing under it.
LongClock == {1700, 1701, 1702}
NamedUpdates == {[interestRate |-> Num(9)], [interestRate |-> Num(-1)]}
BaseTerms ==
  {[loanAmount |-> BaseAmount, interestRate |-> Num(12), loanTenure |-> BaseTenure],
   [loanAmount |-> BaseAmount, interestRate |-> Num(10), loanTenure |-> BaseTenure]}

\* What the effect of lines 108-112 has left under STORAGE_KEY: nothing, an
\* empty list, or the scenarios that are not the base scenario.  (A list
\* written by another program may hold a scenario of id "base".)
SavedLists ==
  {Null,
   <<>>,
   <<LoanScenario(BaseId, Num(2200), Num(9), Num(1), <<>>),
     LoanScenario(FirstId, BaseAmount, Num(9), BaseTenure, <<>>)>>}

\* Lines 65-106: the useState initializer of part_005.
LoadedScenarios(saved, baseAmount, baseRate, baseTenure) ==
  IF saved # Null
    THEN <<LoanScenario(BaseId, baseAmount, baseRate, baseTenure, <<>>)>>
         \o SelectSeq(saved, LAMBDA sc : sc.id # BaseId)
  ELSE InitialScenarios(WithoutScenarioPayments, baseAmount, baseRate, baseTenure, <<>>)

ScenarioListInit ==
  /\ pc = "effect"
  /\ f = <<>>
  /\ thrown = ""
  /\ result = <<>>
  /\ calls = 1
  /\ previous = <<>>
  /\ principal = BaseAmount
  /\ annualRate = Num(12)
  /\ tenureYears = BaseTenure
  /\ startMonth = BaseStart[1]
  /\ startYear = BaseStart[2]
  /\ partPayments = <<>>
  /\ build = WithoutScenarioPayments
  /\ \E saved \in SavedLists :
       scenarios = LoadedScenarios(saved, principal, annualRate, tenureYears)
  /\ results = <<>>
  /\ form = <<>>
  /\ affordability = <<>>

\* Lines 117-123 with the base scenario left as it is.
UpdateBasePropsOnly ==
  /\ Mounted
  /\ pc = "idle"
  /\ \E terms \in BaseTerms :
       /\ <<terms.loanAmount, terms.interestRate, terms.loanTenure>>
            # <<principal, annualRate, tenureYears>>
       /\ principal' = terms.loanAmount
       /\ annualRate' = terms.interestRate
       /\ tenureYears' = terms.loanTenure
  /\ pc' = "effect"
  /\ UNCHANGED <<startMonth, startYear, partPayments, scenarios, f, thrown,
                 result, earlier, build, results, affordability, form>>

\* Lines 117-123 (LoanComparisonSection.tsx: 86-92): the main loan's terms
\* change and the effect on them rewrites the base scenario.
UpdateBaseProps ==
  /\ Mounted
  /\ pc = "idle"
  /\ \E terms \in BaseTerms :
       /\ <<terms.loanAmount, terms.interestRate, terms.loanTenure>>
            # <<principal, annualRate, tenureYears>>
       /\ principal' = terms.loanAmount
       /\ annualRate' = terms.interestRate
       /\ tenureYears' = terms.loanTenure
       /\ scenarios' =
            [i \in 1..Len(scenarios) |->
               IF scenarios[i].id = BaseId
                 THEN Spread(scenarios[i],
                             [loanAmount |-> terms.loanAmount,
                              interestRate |-> terms.interestRate,
                              loanTenure |-> terms.loanTenure])
               ELSE scenarios[i]]
  /\ pc' = "effect"
  /\ UNCHANGED <<startMonth, startYear, partPayments, f, thrown, result,
                 earlier, build, results, affordability, form>>

addScenarioLater == addScenarioAt(LongClock)
updateScenarioNamed == updateScenarioWith(NamedUpdates)

ScenarioListNext ==
  \/ ComputeResults
  \/ UpdateBaseProps
  \/ addScenarioLater
  \/ removeScenario
  \/ updateScenarioNamed

ScenarioListSpec == ScenarioListInit /\ [][ScenarioListNext]_vars

\* The effect has run since the scenarios last changed.
Settled == Mounted /\ pc = "idle"

\* part_005 lines 190-236: calculateWeightedScore.

\* scenarios.map(s => results[s.id]).filter(Boolean), as the scenarios that
\* have a result.
WithResult(scens, res) == SelectSeq(scens, LAMBDA sc : sc.id \in DOMAIN res)

\* Math.min(...values) and Math.max(...values).
RECURSIVE MinOf(_)
MinOf(values) ==
  IF values = <<>> THEN PosInf ELSE MathMin(Head(values), MinOf(Tail(values)))

RECURSIVE MaxOf(_)
MaxOf(values) ==
  IF values = <<>> THEN NegInf ELSE MathMax(Head(values), MaxOf(Tail(values)))

Metric(scens, res, metric) ==
  [i \in 1..Len(scens) |->
     IF metric = "tenureMonths" THEN Num(res[scens[i].id][metric])
     ELSE res[scens[i].id][metric]]

\* 100 - ((value - min) / (max - min)) * 100 without the inversion: the
\* highest value scores 100.
NormalizedScoreHigherIsBetter(value, min, max) ==
  IF max = min THEN Num(100)
  ELSE FMul(FDiv(FSub(value, min), FSub(max, min)), Num(100))

\* max === min ? 100 : 100 - ((value - min) / (max - min)) * 100
NormalizedScore(value, min, max) ==
  IF max = min THEN Num(100)
  ELSE FSub(Num(100), FMul(FDiv(FSub(value, min), FSub(max, min)), Num(100)))

\* (emiScore * 0.3) + (interestScore * 0.5) + (tenureScore * 0.2)
WeightedScore(emiScore, interestScore, tenureScore) ==
  FAdd(FAdd(FMul(emiScore, Dec(3, -1)), FMul(interestScore, Dec(5, -1))),
       FMul(tenureScore, Dec(2, -1)))

\* Lines 205-216, the breakdown of the scores object: the three normalized
\* scores of each scenario that has a result.
Breakdown(scens, res) ==
  LET scored == WithResult(scens, res)
      emis == Metric(scored, res, "emi")
      interests == Metric(scored, res, "totalInterest")
      tenures == Metric(scored, res, "tenureMonths")
  IN  [id \in {scored[i].id : i \in 1..Len(scored)} |->
         LET r == res[id]
         IN  [emi |-> NormalizedScore(r.emi, MinOf(emis), MaxOf(emis)),
              interest |-> NormalizedScore(r.totalInterest, MinOf(interests),
                                           MaxOf(interests)),
              tenure |-> NormalizedScore(Num(r.tenureMonths), MinOf(tenures),
                                         MaxOf(tenures))]]

\* The scores object: a score for each scenario that has a result.
Scores(scens, res) ==
  LET breakdown == Breakdown(scens, res)
  IN  [id \in DOMAIN breakdown |->
         WeightedScore(breakdown[id].emi, breakdown[id].interest,
                       breakdown[id].tenure)]

\* The keys of the scores object in the order of Object.entries: the order in
\* which they were first set.
RECURSIVE KeysInOrder(_, _)
KeysInOrder(scens, seen) ==
  IF scens = <<>> THEN <<>>
  ELSE IF Head(scens).id \in seen THEN KeysInOrder(Tail(scens), seen)
  ELSE <<Head(scens).id>> \o KeysInOrder(Tail(scens), seen \cup {Head(scens).id})

\* Lines 228-233 with >= for >: a later scenario takes over on a tie.
RECURSIVE FindWinnerLastOnTie(_, _, _, _)
FindWinnerLastOnTie(keys, scores, winnerId, highestScore) ==
  IF keys = <<>> THEN [winnerId |-> winnerId, highestScore |-> highestScore]
  ELSE IF FGe(scores[Head(keys)], highestScore)
    THEN FindWinnerLastOnTie(Tail(keys), scores, Head(keys), scores[Head(keys)])
  ELSE FindWinnerLastOnTie(Tail(keys), scores, winnerId, highestScore)

\* Lines 228-233: Object.entries(scores).forEach, a score above the highest so
\* far takes over.
RECURSIVE FindWinner(_, _, _, _)
FindWinner(keys, scores, winnerId, highestScore) ==
  IF keys = <<>> THEN [winnerId |-> winnerId, highestScore |-> highestScore]
  ELSE IF FGt(scores[Head(keys)], highestScore)
    THEN FindWinner(Tail(keys), scores, Head(keys), scores[Head(keys)])
  ELSE FindWinner(Tail(keys), scores, winnerId, highestScore)

\* scores[scenarios[0]?.id]?.score || 0
FirstScore(scens, scores) ==
  IF scens[1].id \in DOMAIN scores /\ ~IsNaN(scores[scens[1].id])
    THEN scores[scens[1].id]
  ELSE Zero

calculateWeightedScore(scens, res) ==
  IF Len(scens) <= 1 \/ DOMAIN res = {} THEN Null
  ELSE IF WithResult(scens, res) = <<>> THEN Null
  ELSE LET scores == Scores(scens, res)
           found == FindWinner(KeysInOrder(WithResult(scens, res), {}), scores,
                               scens[1].id, FirstScore(scens, scores))
       IN  [scores |-> scores, winnerId |-> found.winnerId,
            highestScore |-> found.highestScore]

\* const weightedResults = calculateWeightedScore(), at every render.
weightedResults == calculateWeightedScore(scenarios, results)

----------------------------------------------------------------------------
(* LoanAffordabilityCalculator                                             *)

EmploymentTypes == {"salaried", "self-employed", "business-owner"}

employmentMultipliers ==
  [t \in EmploymentTypes |->
     CASE t = "salaried" -> Num(1)
       [] t = "self-employed" -> Dec(85, -2)
       [] t = "business-owner" -> Dec(9, -1)]

\* Lines 27-33 with the bands open below: a score on a threshold falls into
\* the band under it.
getCreditScoreMultiplierAbove(score) ==
  IF FGt(score, Num(800)) THEN Dec(11, -1)
  ELSE IF FGt(score, Num(750)) THEN Num(1)
  ELSE IF FGt(score, Num(700)) THEN Dec(9, -1)
  ELSE IF FGt(score, Num(650)) THEN Dec(8, -1)
  ELSE Dec(7, -1)

getCreditScoreMultiplier(score) ==
  IF FGe(score, Num(800)) THEN Dec(11, -1)
  ELSE IF FGe(score, Num(750)) THEN Num(1)
  ELSE IF FGe(score, Num(700)) THEN Dec(9, -1)
  ELSE IF FGe(score, Num(650)) THEN Dec(8, -1)
  ELSE Dec(7, -1)

baseFOIR == Dec(5, -1)

\* Line 60 with the other EMIs added to the allowance.
AvailableForNewEMIAdded(grossIncome, otherEMIs) ==
  MathMax(Zero, FAdd(FMul(grossIncome, baseFOIR), otherEMIs))

\* Lines 58-60: availableForNewEMI.
AvailableForNewEMI(grossIncome, otherEMIs) ==
  MathMax(Zero, FSub(FMul(grossIncome, baseFOIR), otherEMIs))

\* Lines 64-71: baseLoanAmount.
BaseLoanAmount(availableForNewEMI, interestRate, tenure) ==
  LET monthlyRate == FDiv(FDiv(interestRate, Num(100)), Num(12))
      months == FMul(tenure, Num(12))
      factor == MathPowNum(FAdd(Num(1), monthlyRate), months)
  IN  IF FGt(monthlyRate, Zero) /\ FGt(months, Zero) /\ FGt(availableForNewEMI, Zero)
        THEN FDiv(FMul(availableForNewEMI, FSub(factor, Num(1))),
                  FMul(monthlyRate, factor))
      ELSE Zero

\* Line 74: creditMultiplier.
CreditMultiplier(hasCreditScore, creditScore) ==
  IF hasCreditScore THEN getCreditScoreMultiplier(creditScore) ELSE Num(1)

\* Line 83: ltvRatio.
LtvRatio(hasCreditScore, creditScore) ==
  IF hasCreditScore /\ FGe(creditScore, Num(750)) THEN Dec(85, -2) ELSE Dec(75, -2)

\* Line 80: incomeBasedEligibility.
IncomeBasedEligibility(a) ==
  FMul(FMul(BaseLoanAmount(AvailableForNewEMI(a.grossIncome, a.otherEMIs),
                           a.interestRate, a.tenure),
            CreditMultiplier(a.hasCreditScore, a.creditScore)),
       employmentMultipliers[a.employmentType])

\* Lines 56-90: what the effect sets from the inputs a.
Estimate(a) ==
  LET ltvBasedLimit == FMul(a.propertyValue, LtvRatio(a.hasCreditScore, a.creditScore))
      finalEligibility == MathMin(IncomeBasedEligibility(a), ltvBasedLimit)
  IN  [maxEMI |-> AvailableForNewEMI(a.grossIncome, a.otherEMIs),
       ltvLimit |-> ltvBasedLimit,
       eligibleAmount |-> MathRound(MathMax(Zero, finalEligibility))]

\* Values typed or slid into the inputs.
IncomeInputs == {Num(100), Num(200)}
TenureInputs == {Num(1)}
RateInputs == {Num(12)}
ObligationInputs == {Num(20), Num(60)}
PropertyInputs == {Num(500)}
ScoreInputs == {Num(200), Num(650), Num(700), Num(800)}

\* Lines 44-54: the state at mount.  The effect has not run yet (stale).
AffordabilityInit ==
  /\ pc = "idle"
  /\ f = <<>>
  /\ thrown = ""
  /\ result = <<>>
  /\ calls = 1
  /\ previous = <<>>
  /\ principal = Zero
  /\ annualRate = Zero
  /\ tenureYears = Zero
  /\ startMonth = 1
  /\ startYear = MinStartYear
  /\ partPayments = <<>>
  /\ build = ""
  /\ scenarios = <<>>
  /\ results = <<>>
  /\ form = <<>>
  /\ affordability =
       [grossIncome |-> Dec(1, 5), tenure |-> Num(20), interestRate |-> Dec(85, -1),
        otherEMIs |-> Zero, hasCreditScore |-> FALSE, creditScore |-> Num(750),
        employmentType |-> "salaried", propertyValue |-> Dec(5, 6),
        eligibleAmount |-> Zero, maxEMI |-> Zero, ltvLimit |-> Zero,
        stale |-> TRUE]

\* A state setter called from an input: the effect is due.
SetInput(field, value) ==
  /\ ~affordability.stale
  /\ affordability' = [affordability EXCEPT ![field] = value, !.stale = TRUE]
  /\ UNCHANGED <<args, pc, f, thrown, result, earlier, comparison, form>>

\* Lines 56-90: useEffect on the inputs.
EstimateEffect ==
  /\ affordability.stale
  /\ affordability' =
       [affordability EXCEPT
          !.maxEMI = Estimate(affordability).maxEMI,
          !.ltvLimit = Estimate(affordability).ltvLimit,
          !.eligibleAmount = Estimate(affordability).eligibleAmount,
          !.stale = FALSE]
  /\ UNCHANGED <<args, pc, f, thrown, result, earlier, comparison, form>>

\* Line 118
setGrossIncome ==
  \E v \in IncomeInputs : SetInput("grossIncome", MathMax(Zero, v))

\* Line 137
setEmploymentType ==
  \E v \in EmploymentTypes : SetInput("employmentType", v)

\* Line 161
setTenure ==
  \E v \in TenureInputs : SetInput("tenure", MathMin(Num(30), MathMax(Num(1), v)))

\* Line 186
setInterestRate ==
  \E v \in RateInputs : SetInput("interestRate", MathMin(Num(20), MathMax(Num(1), v)))

\* Line 212
setOtherEMIs ==
  \E v \in ObligationInputs : SetInput("otherEMIs", MathMax(Zero, v))

\* Line 237
setPropertyValue ==
  \E v \in PropertyInputs : SetInput("propertyValue", MathMax(Zero, v))

\* Line 259
setHasCreditScore ==
  \E v \in BOOLEAN : SetInput("hasCreditScore", v)

\* Line 274: the input is rendered when the score is known.
setCreditScore ==
  /\ affordability.hasCreditScore
  /\ \E v \in ScoreInputs :
       SetInput("creditScore", MathMin(Num(900), MathMax(Num(300), v)))

AffordabilityNext ==
  \/ EstimateEffect
  \/ setGrossIncome
  \/ setEmploymentType
  \/ setTenure
  \/ setInterestRate
  \/ setOtherEMIs
  \/ setPropertyValue
  \/ setHasCreditScore
  \/ setCreditScore

AffordabilitySpec == AffordabilityInit /\ [][AffordabilityNext]_vars

\* The effect of lines 56-90 as a function of the eight state values it reads,
\* over values that include an annual rate of 0 (the rate input of line 186
\* keeps what is typed within 1..20).
EstimateIncomes == IncomeInputs \cup {Dec(1, 5)}
EstimateTenures == {Num(1), Num(20)}
EstimateRates == {Zero, Num(1), Num(12)}
EstimateObligations == ObligationInputs \cup {Zero}

EstimateInit ==
  /\ pc = "idle"
  /\ f = <<>>
  /\ thrown = ""
  /\ result = <<>>
  /\ calls = 1
  /\ previous = <<>>
  /\ principal = Zero
  /\ annualRate = Zero
  /\ tenureYears = Zero
  /\ startMonth = 1
  /\ startYear = MinStartYear
  /\ partPayments = <<>>
  /\ build = ""
  /\ scenarios = <<>>
  /\ results = <<>>
  /\ form = <<>>
  /\ \E income \in EstimateIncomes, years \in EstimateTenures,
        rate \in EstimateRates, emis \in EstimateObligations,
        known \in BOOLEAN :
       affordability =
         [grossIncome |-> income, tenure |-> years, interestRate |-> rate,
          otherEMIs |-> emis, hasCreditScore |-> known, creditScore |-> Num(750),
          employmentType |-> "salaried", propertyValue |-> Dec(5, 6),
          eligibleAmount |-> Zero, maxEMI |-> Zero, ltvLimit |-> Zero,
          stale |-> TRUE]

EstimateNext == EstimateEffect

EstimateSpec == EstimateInit /\ [][EstimateNext]_vars

----------------------------------------------------------------------------
(* PartPaymentSection, src/src/components/LoanSummary.tsx lines 820-1261,  *)
(* under Index (src/src/pages/Index.tsx)                                   *)

\* The main loan the form is mounted on: 2000000 at 12% over half a year from
\* 11/2023, so that its six months run over two calendar years.
FormPrincipal == Dec(2, 6)
FormRate == Num(12)
FormTenure == Dec(5, -1)
FormStart == <<11, 2023>>

\* new Date() at the renders: 1/2024.
Today == <<1, 2024>>

\* Values chosen in the selects and typed into the amount field.
MonthInputs == {12}
AmountInputs == {Zero, Dec(6, 5)}
FrequencyInputs == {"monthly"}
StrategyInputs == {"reduce-emi"}

\* Date.now() at the saves: at most MaxSaves payments are added.
MaxSaves == 2

\* editingId null.
NoId == 0

\* Lines 862-868 (and 966-972, 990-996): the form as it is reset.
DefaultPayment ==
  [month |-> Today[1], year |-> Today[2], amount |-> Dec(1, 5),
   frequency |-> "one-time", strategy |-> "reduce-tenure"]

\* { ...newPayment, id }
WithId(newPayment, id) ==
  [id |-> id, month |-> newPayment.month, year |-> newPayment.year,
   amount |-> newPayment.amount, frequency |-> newPayment.frequency,
   strategy |-> newPayment.strategy]

\* Lines 940-945 and 955-960: the comparator of the sort, by year and then by
\* month.
Before(a, b) ==
  IF a.year # b.year THEN a.year - b.year < 0 ELSE a.month - b.month < 0

\* Array.prototype.sort with that comparator (stable): a is put after the
\* elements that are not after it.
RECURSIVE InsertPayment(_, _)
InsertPayment(a, sorted) ==
  IF sorted = <<>> THEN <<a>>
  ELSE IF Before(a, Head(sorted)) THEN <<a>> \o sorted
  ELSE <<Head(sorted)>> \o InsertPayment(a, Tail(sorted))

\* The list left as it is: no sort.
SortPaymentsNot(payments) == payments

RECURSIVE SortPayments(_)
SortPayments(payments) ==
  IF payments = <<>> THEN <<>>
  ELSE InsertPayment(payments[Len(payments)],
                     SortPayments(SubSeq(payments, 1, Len(payments) - 1)))

\* Lines 874-876: lastScheduleEntry?.month || startMonth and the year.
EndOf(loanSchedule, sm, sy) ==
  IF loanSchedule = <<>> THEN <<sm, sy>>
  ELSE <<loanSchedule[Len(loanSchedule)].month, loanSchedule[Len(loanSchedule)].year>>

\* Lines 897-901: a payment other than the one edited on the form's month and
\* year.
Conflicting(payments, editingId, newPayment) ==
  \E i \in 1..Len(payments) :
    /\ payments[i].id # editingId
    /\ payments[i].month = newPayment.month
    /\ payments[i].year = newPayment.year

\* Lines 922-924: existingPaymentAmount.
ExistingPaymentAmount(payments, editingId, newPayment) ==
  SumAmounts(SelectSeq(payments,
                       LAMBDA p : /\ p.id # editingId
                                  /\ p.month = newPayment.month
                                  /\ p.year = newPayment.year))

\* Lines 872-936: the title of the toast of the check that fails, "" when
\* every check passes.
Validation(newPayment, editingId, payments, loanSchedule, sm, sy) ==
  LET end == EndOf(loanSchedule, sm, sy)
      paymentDate == newPayment.year * 12 + newPayment.month
      startDate == sy * 12 + sm
      endDate == end[2] * 12 + end[1]
      found == SelectSeq(loanSchedule,
                         LAMBDA entry : /\ entry.month = newPayment.month
                                        /\ entry.year = newPayment.year)
  IN  IF paymentDate < startDate \/ paymentDate > endDate
        THEN "Invalid Part Payment Date"
      ELSE IF Conflicting(payments, editingId, newPayment)
        THEN "Duplicate Part Payment Date"
      ELSE IF found = <<>>
        THEN "Invalid Part Payment Date"
      ELSE IF FGe(FAdd(newPayment.amount,
                       ExistingPaymentAmount(payments, editingId, newPayment)),
                  found[1].remainingBalance)
        THEN "Invalid Part Payment Amount"
      ELSE ""

\* Lines 938-962: the list handed to setPartPayments.
UpdatedPayments(newPayment, editingId, payments, id) ==
  IF editingId # NoId
    THEN SortPayments([i \in 1..Len(payments) |->
                         IF payments[i].id = editingId
                           THEN WithId(newPayment, editingId)
                         ELSE payments[i]])
  ELSE SortPayments(Append(payments, WithId(newPayment, id)))

\* The schedule the form is given: calculation.schedule.
loanSchedule == result.schedule

FormMounted == form # <<>> /\ pc = "idle"

\* Index is mounted with no part payments; its effect is still to run, and
\* LoanSummary renders the form once there is a calculation.
FormInit ==
  /\ pc = "effect"
  /\ f = <<>>
  /\ thrown = ""
  /\ result = <<>>
  /\ calls = 1
  /\ previous = <<>>
  /\ principal = FormPrincipal
  /\ annualRate = FormRate
  /\ tenureYears = FormTenure
  /\ startMonth = FormStart[1]
  /\ startYear = FormStart[2]
  /\ partPayments = <<>>
  /\ build = ""
  /\ scenarios = <<>>
  /\ results = <<>>
  /\ affordability = <<>>
  /\ form = [newPayment |-> DefaultPayment, editingId |-> NoId, toast |-> "",
             clock |-> 1]

\* Index.tsx lines 75-108: the effect on the loan's terms and the part
\* payments.
Recalculate ==
  /\ form # <<>>
  /\ pc = "effect"
  /\ result' = calculateLoanEMI(principal, annualRate, tenureYears, startMonth,
                                startYear, partPayments)
  /\ pc' = "idle"
  /\ UNCHANGED <<args, f, thrown, earlier, comparison, affordability, form>>

\* setNewPayment from a field of the form.  (toast is the title of the toast
\* the last handler has shown, "" when it has shown none.)
SetNewPayment(field, value) ==
  /\ FormMounted
  /\ form' = [form EXCEPT !.newPayment[field] = value, !.toast = ""]
  /\ UNCHANGED <<args, pc, f, thrown, result, earlier, comparison, affordability>>

\* Lines 1004-1014
getYearOptions ==
  startYear..EndOf(loanSchedule, startMonth, startYear)[2]

\* Lines 1016-1035
getMonthOptions ==
  {i \in 1..12 :
     /\ ~(form.newPayment.year = startYear /\ i < startMonth)
     /\ ~(/\ form.newPayment.year = EndOf(loanSchedule, startMonth, startYear)[2]
          /\ i > EndOf(loanSchedule, startMonth, startYear)[1])}

\* Line 1089
setMonth ==
  /\ FormMounted
  /\ \E v \in MonthInputs \cap getMonthOptions : SetNewPayment("month", v)

\* Line 1105
setYear ==
  /\ FormMounted
  /\ \E v \in getYearOptions : SetNewPayment("year", v)

\* Line 1126
setAmount == \E v \in AmountInputs : SetNewPayment("amount", v)

\* Line 1138
setFrequency == \E v \in FrequencyInputs : SetNewPayment("frequency", v)

\* Lines 1159, 1169
setStrategy == \E v \in StrategyInputs : SetNewPayment("strategy", v)

\* Lines 871-976: the "Add Payment" / "Update Payment" button.  Nothing
\* happens for an amount that is not above 0; a check that fails shows its
\* toast; otherwise the list is replaced, the form is reset and the edit mode
\* is left.
addPartPayment ==
  /\ FormMounted
  /\ form.editingId # NoId \/ form.clock <= MaxSaves
  /\ FGt(form.newPayment.amount, Zero)
  /\ LET failed == Validation(form.newPayment, form.editingId, partPayments,
                              loanSchedule, startMonth, startYear)
     IN  IF failed # ""
           THEN /\ form' = [form EXCEPT !.toast = failed]
                /\ UNCHANGED <<partPayments, pc>>
         ELSE /\ partPayments' = UpdatedPayments(form.newPayment, form.editingId,
                                                 partPayments, form.clock)
              /\ form' = [newPayment |-> DefaultPayment,
                          editingId |-> NoId,
                          toast |-> IF form.editingId # NoId
                                      THEN "Part Payment Updated" ELSE "",
                          clock |-> IF form.editingId # NoId
                                      THEN form.clock ELSE form.clock + 1]
              /\ pc' = "effect"
  /\ UNCHANGED <<principal, annualRate, tenureYears, startMonth, startYear, f,
                 thrown, result, earlier, comparison, affordability>>

\* Lines 978-987
editPartPayment ==
  /\ FormMounted
  /\ \E i \in 1..Len(partPayments) :
       form' = [form EXCEPT
                  !.newPayment = [month |-> partPayments[i].month,
                                  year |-> partPayments[i].year,
                                  amount |-> partPayments[i].amount,
                                  frequency |-> partPayments[i].frequency,
                                  strategy |-> partPayments[i].strategy],
                  !.editingId = partPayments[i].id,
                  !.toast = ""]
  /\ UNCHANGED <<args, pc, f, thrown, result, earlier, comparison, affordability>>

\* Lines 989-998: rendered in the edit mode.
cancelEdit ==
  /\ FormMounted
  /\ form.editingId # NoId
  /\ form' = [form EXCEPT !.newPayment = DefaultPayment, !.editingId = NoId,
                           !.toast = ""]
  /\ UNCHANGED <<args, pc, f, thrown, result, earlier, comparison, affordability>>

\* Lines 1000-1002
removePartPayment ==
  /\ FormMounted
  /\ \E i \in 1..Len(partPayments) :
       partPayments' = SelectSeq(partPayments,
                                 LAMBDA payment : payment.id # partPayments[i].id)
  /\ form' = [form EXCEPT !.toast = ""]
  /\ pc' = "effect"
  /\ UNCHANGED <<principal, annualRate, tenureYears, startMonth, startYear, f,
                 thrown, result, earlier, comparison, affordability>>

FormNext ==
  \/ Recalculate
  \/ setMonth
  \/ setYear
  \/ setAmount
  \/ setFrequency
  \/ setStrategy
  \/ addPartPayment
  \/ editPartPayment
  \/ cancelEdit
  \/ removePartPayment

FormSpec == FormInit /\ [][FormNext]_vars

----------------------------------------------------------------------------
(* Properties                                                              *)

InCall == pc \in {"loop", "done"}
Done == pc = "done"
NoPartPayments == partPayments = <<>>

\* The number of months the loop may run: Math.ceil of totalMonths.
MonthBound == Ceil(f.totalMonths)

\* The balance before entry i of the schedule.
BalanceBefore(schedule, i) ==
  IF i = 1 THEN f.safePrincipal ELSE schedule[i - 1].remainingBalance

\* C1 as stated: for valid terms and no part payments the schedule has
\* tenureYears x 12 entries.
C1_Original ==
  (Done /\ NoPartPayments)
    => Num(Len(result.schedule)) = FMul(tenureYears, Num(12))

\* C1 as amended: for valid terms and no part payments the schedule has at most
\* ceil(min(tenureYears, 50) x 12) entries, and exactly that many unless the
\* balance has dropped to 0.01 or less before (then it ends at that entry, and
\* it is empty when the principal is 0.01 or less).
C1_LengthUnlessPaidOff ==
  (Done /\ NoPartPayments)
    => LET n == Len(result.schedule)
       IN  /\ n <= MonthBound
           /\ n < MonthBound
                => FLe(IF n = 0 THEN f.safePrincipal
                                ELSE result.schedule[n].remainingBalance,
                       Epsilon)

C1_Witness ==
  /\ Done /\ NoPartPayments
  /\ tenureYears = Num(51)
  /\ Len(result.schedule) = 600

\* C2 as stated (its bound): for valid terms and any part payments the
\* schedule never has more entries than the nominal tenure in months, and no
\* entry is dated at or after the nominal end date (start + tenure).
C2_Original ==
  InCall
    => /\ FLe(Num(Len(f.schedule)), FMul(tenureYears, Num(12)))
       /\ \A i \in 1..Len(f.schedule) :
            NewDate(f.schedule[i].year, f.schedule[i].month) < f.originalEndDate

\* C3 as stated: every entry's balance is >= 0 and strictly below the balance
\* before it, and no entry follows a balance of 0.01 or less.
C3_Original ==
  InCall
    => \A i \in 1..Len(f.schedule) :
         /\ FGe(f.schedule[i].remainingBalance, Zero)
         /\ FLt(f.schedule[i].remainingBalance,
                IF i = 1 THEN principal ELSE f.schedule[i - 1].remainingBalance)
         /\ i > 1 => FGt(f.schedule[i - 1].remainingBalance, Epsilon)

\* C4 as stated: after every month step, whatever part payments land on the
\* month, the running balance is not negative.
C4_Original ==
  InCall => ~FLt(f.remainingBalance, Zero)

\* One unit in the last place of x.
Ulp(x) == Dec(1, x.e)

\* C4 as amended: after every month step, whatever part payments land on the
\* month, the running balance is not below zero by more than the rounding error
\* of the clamp (one unit in the last place of the balance before the step),
\* and the balance recorded in the entry is not negative.
C4_NegativeOnlyByRounding ==
  InCall
    => \A i \in 1..Len(f.schedule) :
         /\ ~FLt(f.schedule[i].remainingBalance, Zero)
         /\ (i = Len(f.schedule) /\ FLt(f.remainingBalance, Zero))
              => FGe(f.remainingBalance,
                     FNeg(Ulp(BalanceBefore(f.schedule, i))))

\* A month whose part payments exceed the balance outstanding before it: its
\* running balance ends one rounding unit below zero and is recorded as zero.
C4_Witness ==
  /\ InCall
  /\ LET n == Len(f.schedule)
     IN  /\ n > 0
         /\ FGt(f.schedule[n].partPayment, BalanceBefore(f.schedule, n))
         /\ FLt(f.remainingBalance, Zero)
         /\ f.schedule[n].remainingBalance = Zero

\* The failure conditions of C5 on the arguments.
MustFail ==
  \/ ~isFinite(principal) \/ FLe(principal, Zero)
  \/ ~isFinite(annualRate) \/ FLt(annualRate, Zero)
  \/ ~IsInteger(FMul(tenureYears, Num(12)))
  \/ FLe(FMul(tenureYears, Num(12)), Zero)
  \/ LET monthlyRate == FDiv(FDiv(MathMin(annualRate, MaxSafeRate), Num(12)), Num(100))
         factor == Factor(monthlyRate, FMul(MathMin(tenureYears, MaxSafeTenure), Num(12)))
     IN  monthlyRate # Zero /\ (~isFinite(factor) \/ FLe(factor, Num(1)))

\* C5 as stated: the call throws whenever the principal is non-finite or <= 0,
\* the rate negative or non-finite, the term in months not a positive integer,
\* or the factor non-finite or <= 1.
C5_Original ==
  (pc # "start" /\ MustFail) => pc = "thrown"

\* Terms that meet none of the failure conditions, with a valid start date.
ValidTerms ==
  /\ ~MustFail
  /\ startMonth \in 1..12
  /\ startYear \in MinStartYear..MaxStartYear

IsFiniteEntry(entry) ==
  /\ isFinite(entry.emiAmount)
  /\ isFinite(entry.principalAmount)
  /\ isFinite(entry.interestAmount)
  /\ isFinite(entry.remainingBalance)
  /\ isFinite(entry.partPayment)

\* C6 as stated: for valid terms and part payments with positive amounts the
\* call does not throw, and emi, the totals and every field of every entry are
\* finite.
C6_Original ==
  (ValidTerms /\ \A i \in 1..Len(partPayments) : FGt(partPayments[i].amount, Zero))
    => /\ pc # "thrown"
       /\ Done => /\ isFinite(result.emi)
                  /\ isFinite(result.totalInterest)
                  /\ isFinite(result.totalAmount)
                  /\ \A i \in 1..Len(result.schedule) :
                       IsFiniteEntry(result.schedule[i])

ZeroInterest ==
  /\ result.totalInterest = Zero
  /\ \A i \in 1..Len(result.schedule) : result.schedule[i].interestAmount = Zero

\* C7 as stated: at rate 0 with no part payments emi = principal / totalMonths
\* and no interest is charged.
C7_Original ==
  (Done /\ NoPartPayments /\ annualRate = Zero)
    => /\ result.emi = FDiv(principal, f.totalMonths)
       /\ ZeroInterest

\* C7 as amended: at rate 0 with no part payments emi = min(principal, 1e12) /
\* totalMonths, every interest component is 0 and totalInterest is 0.
C7_ZeroRate ==
  (Done /\ NoPartPayments /\ annualRate = Zero)
    => /\ result.emi = FDiv(MathMin(principal, MaxSafePrincipal), f.totalMonths)
       /\ ZeroInterest

C7_Witness ==
  /\ Done /\ NoPartPayments /\ annualRate = Zero
  /\ FGt(principal, MaxSafePrincipal)
  /\ Len(result.schedule) = 6
  /\ result.emi = FDiv(MaxSafePrincipal, Num(6))

\* C8 as stated: for r > 0 and no part payments the balance is above 0.01 in
\* every entry before entry tenureYears x 12 and within 0.01 of zero in that
\* entry, the last one.
C8_Original ==
  (Done /\ NoPartPayments /\ FGt(f.monthlyRate, Zero))
    => LET n == Len(result.schedule)
       IN  /\ Num(n) = FMul(tenureYears, Num(12))
           /\ \A i \in 1..(n - 1) : FGt(result.schedule[i].remainingBalance, Epsilon)
           /\ n > 0 => FLe(result.schedule[n].remainingBalance, Epsilon)

\* C8 as amended: for r > 0 and no part payments the balance is above 0.01 in
\* every entry but the last, the schedule has at most
\* ceil(min(tenureYears, 50) x 12) entries, and a last entry charged less than
\* the nominal emi (the balloon) leaves a balance of exactly 0.
C8_AboveEpsilonUntilLast ==
  (Done /\ NoPartPayments /\ FGt(f.monthlyRate, Zero))
    => LET n == Len(result.schedule)
       IN  /\ n <= MonthBound
           /\ \A i \in 1..(n - 1) : FGt(result.schedule[i].remainingBalance, Epsilon)
           /\ (n > 0 /\ result.schedule[n].emiAmount # result.emi)
                => result.schedule[n].remainingBalance = Zero

C8_Witness ==
  /\ Done /\ NoPartPayments /\ FGt(f.monthlyRate, Zero)
  /\ tenureYears = Num(1)
  /\ Len(result.schedule) = 12
  /\ result.schedule[12].emiAmount # result.emi
  /\ result.schedule[12].remainingBalance = Zero

\* The baseline of the caller: the same terms with no part payments.
Baseline ==
  calculateLoanEMI(principal, annualRate, tenureYears, startMonth, startYear, <<>>)

\* One reduce-tenure instruction with a positive amount whose first date is a
\* month of the baseline schedule.
OneReduceTenurePayment ==
  /\ Len(partPayments) = 1
  /\ partPayments[1].strategy = "reduce-tenure"
  /\ FGt(partPayments[1].amount, Zero)
  /\ \E i \in 1..Len(Baseline.schedule) :
       /\ Baseline.schedule[i].month = partPayments[1].month
       /\ Baseline.schedule[i].year = partPayments[1].year

\* C9 as stated: one reduce-tenure part payment makes the schedule strictly
\* shorter and totalInterest strictly lower than the baseline's.
C9_Original ==
  (Done /\ OneReduceTenurePayment)
    => /\ Len(result.schedule) < Len(Baseline.schedule)
       /\ FLt(result.totalInterest, Baseline.totalInterest)

\* C9 as amended: one reduce-tenure part payment never makes the schedule
\* longer nor totalInterest higher than the baseline's.
C9_NotLongerNotCostlier ==
  (Done /\ OneReduceTenurePayment)
    => /\ Len(result.schedule) <= Len(Baseline.schedule)
       /\ FLe(result.totalInterest, Baseline.totalInterest)

C9_Witness ==
  /\ Done /\ OneReduceTenurePayment
  /\ partPayments[1].frequency = "one-time"
  /\ Len(result.schedule) < Len(Baseline.schedule)
  /\ FLt(result.totalInterest, Baseline.totalInterest)

AllReduceTenure ==
  \A i \in 1..Len(partPayments) : partPayments[i].strategy = "reduce-tenure"

\* C10: when every part payment is reduce-tenure, every entry of the schedule
\* but the last is charged the nominal emi of the result.
C10_InstallmentUnchanged ==
  (Done /\ AllReduceTenure)
    => \A i \in 1..(Len(result.schedule) - 1) :
         result.schedule[i].emiAmount = result.emi

\* A reduce-tenure payment applied in a month that at least two entries follow.
C10_Witness ==
  /\ Done /\ AllReduceTenure
  /\ \E i \in 1..(Len(result.schedule) - 2) :
       /\ FGt(result.schedule[i].partPayment, Zero)
       /\ result.schedule[i + 1].emiAmount = result.emi

\* The events of the month of entry i of the schedule.
EventsOfEntry(i) ==
  PartPaymentsThisMonth(f.sortedPartPayments, f.schedule[i].year, f.schedule[i].month)

\* Entry i is a month in which a reduce-emi part payment of positive amount
\* was applied.
ReduceEMIPaidAt(i) ==
  /\ FGt(f.schedule[i].partPayment, Zero)
  /\ HasStrategy(EventsOfEntry(i), "reduce-emi")

\* C11 as stated: after a reduce-emi part payment of positive amount in the
\* month of entry i, every later entry is charged strictly less than every
\* entry before the payment.
C11_Original ==
  InCall
    => \A i \in 1..Len(f.schedule) :
         ReduceEMIPaidAt(i)
           => \A j \in (i + 1)..Len(f.schedule) : \A k \in 1..(i - 1) :
                FLt(f.schedule[j].emiAmount, f.schedule[k].emiAmount)

AllReduceEMI ==
  /\ Len(partPayments) > 0
  /\ \A i \in 1..Len(partPayments) : partPayments[i].strategy = "reduce-emi"

\* No month's part payments reach the balance left after the principal
\* component of that month.
NoPayoffByPayment ==
  \A i \in 1..Len(f.schedule) :
    FGt(f.schedule[i].partPayment, Zero)
      => FLt(f.schedule[i].partPayment,
             FSub(BalanceBefore(f.schedule, i), f.schedule[i].principalAmount))

\* C12 as stated: with reduce-emi part payments only, none of which pays off
\* the balance, the schedule ends in the last month of the nominal tenure with
\* a balance of 0.01 or less, and the principal paid (principal components plus
\* applied part payments) is the principal, up to one rounding unit per entry.
C12_Original ==
  (Done /\ AllReduceEMI /\ NoPayoffByPayment)
    => LET n == Len(f.schedule)
       IN  /\ n > 0
           /\ NewDate(f.schedule[n].year, f.schedule[n].month) = f.originalEndDate - 1
           /\ FLe(f.schedule[n].remainingBalance, Epsilon)
           /\ FLe(FSub(f.safePrincipal, f.principalPaidTotal),
                  FMul(Num(n), Ulp(f.safePrincipal)))

C14_Original ==
  Settled =>
  \A i \in 1..Len(scenarios) :
    scenarios[i].id \in DOMAIN results
      => results[scenarios[i].id] =
           ToScenarioResult(
             calculateLoanEMI(scenarios[i].loanAmount, scenarios[i].interestRate,
                              scenarios[i].loanTenure, startMonth, startYear, <<>>))

\* The first position of id in the scenarios.
PositionOf(id) == CHOOSE i \in 1..Len(scenarios) :
                    scenarios[i].id = id /\ \A j \in 1..(i - 1) : scenarios[j].id # id

SameTerms(a, b) ==
  /\ a.loanAmount = b.loanAmount
  /\ a.interestRate = b.interestRate
  /\ a.loanTenure = b.loanTenure

AllIdentical == \A i, j \in 1..Len(scenarios) : SameTerms(scenarios[i], scenarios[j])

\* C15: whenever calculateWeightedScore gives a result, its winner has a
\* score, no scenario has a higher weighted score, every scenario before the
\* winner in insertion order has a strictly lower one, and when the results
\* are those of N identical scenarios the winner is the first scenario.
C15_WinnerIsFirstHighest ==
  (build = WithoutScenarioPayments /\ weightedResults # Null) =>
    LET w == weightedResults
    IN  /\ w.winnerId \in DOMAIN w.scores
        /\ w.highestScore = w.scores[w.winnerId]
        /\ \A id \in DOMAIN w.scores : FLe(w.scores[id], w.scores[w.winnerId])
        /\ \A i \in 1..(PositionOf(w.winnerId) - 1) :
             scenarios[i].id \in DOMAIN w.scores
               => FLt(w.scores[scenarios[i].id], w.scores[w.winnerId])
        /\ (Settled /\ AllIdentical) => w.winnerId = scenarios[1].id

\* C15 witness: the effect has run on three scenarios of which the first and
\* the last tie for the highest score, and the first is the winner.
C15_Witness ==
  /\ build = WithoutScenarioPayments
  /\ Settled
  /\ Len(scenarios) = 3
  /\ weightedResults # Null
  /\ weightedResults.winnerId = scenarios[1].id
  /\ weightedResults.scores[scenarios[3].id] = weightedResults.scores[scenarios[1].id]
  /\ FLt(weightedResults.scores[scenarios[2].id], weightedResults.scores[scenarios[1].id])

\* The effect of LoanAffordabilityCalculator has run on the inputs shown.
Estimated == affordability # <<>> /\ ~affordability.stale

\* The multipliers and the ratio as C16 tabulates them.
TabulatedCreditMultiplier(a) ==
  IF ~a.hasCreditScore THEN Num(1)
  ELSE IF FGe(a.creditScore, Num(800)) THEN Dec(110, -2)
  ELSE IF FGe(a.creditScore, Num(750)) THEN Dec(100, -2)
  ELSE IF FGe(a.creditScore, Num(700)) THEN Dec(90, -2)
  ELSE IF FGe(a.creditScore, Num(650)) THEN Dec(80, -2)
  ELSE Dec(70, -2)

TabulatedEmploymentMultiplier(a) ==
  CASE a.employmentType = "salaried" -> Dec(100, -2)
    [] a.employmentType = "business-owner" -> Dec(90, -2)
    [] a.employmentType = "self-employed" -> Dec(85, -2)

TabulatedLTV(a) ==
  IF a.hasCreditScore /\ FGe(a.creditScore, Num(750)) THEN Dec(85, -2) ELSE Dec(75, -2)

\* max(0, min(baseEligiblePrincipal x creditScoreMultiplier x
\* employmentMultiplier, propertyValue x LTV))
TabulatedEligibility(a) ==
  MathMax(Zero,
          MathMin(FMul(FMul(BaseLoanAmount(AvailableForNewEMI(a.grossIncome, a.otherEMIs),
                                           a.interestRate, a.tenure),
                            TabulatedCreditMultiplier(a)),
                       TabulatedEmploymentMultiplier(a)),
                  FMul(a.propertyValue, TabulatedLTV(a))))

\* C16 as stated: the estimate shown equals max(0, min(income-based
\* eligibility, property value x LTV)) with the tabulated multipliers.
C16_Original ==
  Estimated => affordability.eligibleAmount = TabulatedEligibility(affordability)

\* C16 (amended): the estimate shown is that value rounded to the nearest
\* integer (Math.round), with the multipliers and the ratio as tabulated.
C16_RoundedEstimate ==
  Estimated =>
    affordability.eligibleAmount = MathRound(TabulatedEligibility(affordability))

\* C16 witness: a self-employed applicant with a score of 800 or more, whose
\* income-based eligibility is below the property limit and is not a whole
\* number: the estimate is the rounded value.
C16_Witness ==
  /\ Estimated
  /\ affordability.hasCreditScore
  /\ FGe(affordability.creditScore, Num(800))
  /\ affordability.employmentType = "self-employed"
  /\ FLt(TabulatedEligibility(affordability), affordability.ltvLimit)
  /\ FGt(affordability.eligibleAmount, Zero)
  /\ affordability.eligibleAmount # TabulatedEligibility(affordability)

\* Incomes and obligations the estimate is compared across.
Incomes ==
  IncomeInputs \cup {Zero, Num(101), Dec(1005, -1), Num(150), Num(5000), Dec(1, 5)}
Obligations ==
  ObligationInputs \cup {Zero, Num(1), Dec(205, -1), Num(50), Num(100), Num(5000)}

\* C17: with the other inputs as they are, no higher income gives a lower
\* eligible amount and no higher amount of other EMIs gives a higher one.
C17_Monotone ==
  Estimated =>
    /\ \A v \in Incomes :
         FGe(v, affordability.grossIncome)
           => FGe(Estimate([affordability EXCEPT !.grossIncome = v]).eligibleAmount,
                  affordability.eligibleAmount)
    /\ \A v \in Obligations :
         FGe(v, affordability.otherEMIs)
           => FLe(Estimate([affordability EXCEPT !.otherEMIs = v]).eligibleAmount,
                  affordability.eligibleAmount)

\* C17 witness: an estimate that a higher income raises and a higher amount of
\* other EMIs lowers.
C17_Witness ==
  /\ Estimated
  /\ FGt(affordability.otherEMIs, Zero)
  /\ \E v \in Incomes :
       FGt(Estimate([affordability EXCEPT !.grossIncome = v]).eligibleAmount,
           affordability.eligibleAmount)
  /\ \E v \in Obligations :
       /\ FGt(v, affordability.otherEMIs)
       /\ FLt(Estimate([affordability EXCEPT !.otherEMIs = v]).eligibleAmount,
              affordability.eligibleAmount)

\* The part payments of the month the loop is about to simulate.
EventsOfMonth ==
  PartPaymentsThisMonth(f.sortedPartPayments, getFullYear(f.currentDate),
                        getMonth(f.currentDate) + 1)

\* That month has a reduce-tenure and a reduce-emi payment, of a positive sum.
BothStrategiesDue ==
  /\ pc = "loop"
  /\ LoopCondition(f)
  /\ HasStrategy(EventsOfMonth, "reduce-tenure")
  /\ HasStrategy(EventsOfMonth, "reduce-emi")
  /\ FGt(SumAmounts(EventsOfMonth), Zero)

\* C18: in a month with a reduce-tenure and a reduce-emi payment that leave a
\* balance, the step sets the adjusted end date from the new balance and the
\* installment in force, and the installment it leaves is the recomputation
\* over the months from the current date to that new end date.
C18_EndDateAdjustedFirst ==
  [][(BothStrategiesDue /\ FGt(f'.remainingBalance, Zero)) =>
       /\ f'.adjustedEndDate =
            AdjustedEndAfterTenure(f.currentDate, f.currentEMI,
                                   f'.remainingBalance, f.monthlyRate)
       /\ f'.currentEMI =
            RecomputedEMI(f.currentEMI, f'.remainingBalance, f.monthlyRate,
                          f'.adjustedEndDate, f.currentDate)]_vars

\* C18 witness: the first part payments of a run are a reduce-tenure and a
\* reduce-emi payment of the same month; the end date was moved, and the
\* installment left is not the one the end date in force before would give.
C18_Witness ==
  /\ pc = "loop"
  /\ Len(f.schedule) > 0
  /\ LET i == Len(f.schedule)
         entry == f.schedule[i]
     IN  /\ HasStrategy(EventsOfEntry(i), "reduce-tenure")
         /\ HasStrategy(EventsOfEntry(i), "reduce-emi")
         /\ FGt(entry.partPayment, Zero)
         /\ \A k \in 1..(i - 1) : f.schedule[k].partPayment = Zero
         /\ FGt(f.remainingBalance, Zero)
         /\ f.adjustedEndDate # InvalidDate
         /\ f.adjustedEndDate # f.originalEndDate
         /\ f.currentEMI # entry.emiAmount
         /\ f.currentEMI #
              RecomputedEMI(entry.emiAmount, f.remainingBalance, f.monthlyRate,
                            f.originalEndDate, f.currentDate - 1)

\* The month the loop is about to simulate has a reduce-emi payment, of a
\* positive sum with the other payments of the month.
ReduceEMIDue ==
  /\ pc = "loop"
  /\ LoopCondition(f)
  /\ HasStrategy(EventsOfMonth, "reduce-emi")
  /\ FGt(SumAmounts(EventsOfMonth), Zero)

\* C19 as stated: the remainingMonths of line 387, computed in such a month
\* from the current date and the adjusted end date then in force, is the
\* number of calendar months between the two.
C19_Original ==
  [][(ReduceEMIDue /\ f'.adjustedEndDate # InvalidDate) =>
       RemainingMonths(f'.adjustedEndDate, f.currentDate)
         = f'.adjustedEndDate - f.currentDate]_vars

\* The step recomputes the installment (line 388).
Recomputes ==
  /\ ReduceEMIDue
  /\ f'.adjustedEndDate # InvalidDate
  /\ RemainingMonths(f'.adjustedEndDate, f.currentDate) > 1
  /\ FGt(f'.remainingBalance, Zero)

\* C20 as stated: the entry pushed in a month in which the installment is
\* recomputed has the recomputed installment as its emiAmount.
C20_Original ==
  [][Recomputes =>
       f'.schedule[Len(f'.schedule)].emiAmount = f'.currentEMI]_vars

\* C20 (amended): the entry pushed in a month in which the installment is
\* recomputed has as its emiAmount the installment in force before the
\* recomputation; the recomputed installment is the one in force for the
\* month after.
C20_EntryCarriesInstallmentCharged ==
  [][Recomputes =>
       /\ f'.schedule[Len(f'.schedule)].emiAmount = f.currentEMI
       /\ f'.currentEMI =
            RecomputedEMI(f.currentEMI, f'.remainingBalance, f.monthlyRate,
                          f'.adjustedEndDate, f.currentDate)]_vars

\* C20 witness: the month just simulated had a reduce-emi payment that left a
\* balance and lowered the installment; its entry carries the higher one.
C20_Witness ==
  /\ pc = "loop"
  /\ Len(f.schedule) > 0
  /\ ReduceEMIPaidAt(Len(f.schedule))
  /\ FGt(f.remainingBalance, Zero)
  /\ f.adjustedEndDate # InvalidDate
  /\ RemainingMonths(f.adjustedEndDate, f.currentDate - 1) > 1
  /\ FLt(f.currentEMI, f.schedule[Len(f.schedule)].emiAmount)

\* The events C21 gives an instruction: one at its date for a one-time
\* instruction, else those at its date plus k steps that are not after the
\* horizon end date (the loan's start plus its months).
RECURSIVE EventsUpTo(_, _, _, _)
EventsUpTo(date, horizonEnd, step, payment) ==
  IF date > horizonEnd THEN <<>>
  ELSE <<Event(getMonth(date) + 1, getFullYear(date), payment)>>
       \o EventsUpTo(date + step, horizonEnd, step, payment)

StatedEvents(payment, horizonEnd) ==
  IF payment.frequency = "one-time"
    THEN <<Event(payment.month, payment.year, payment)>>
  ELSE EventsUpTo(NewDate(payment.year, payment.month), horizonEnd,
                  CASE payment.frequency = "monthly" -> 1
                    [] payment.frequency = "quarterly" -> 3
                    [] payment.frequency = "half-yearly" -> 6
                    [] payment.frequency = "yearly" -> 12,
                  payment)

RECURSIVE AllStatedEvents(_, _)
AllStatedEvents(payments, horizonEnd) ==
  IF payments = <<>> THEN <<>>
  ELSE StatedEvents(Head(payments), horizonEnd)
       \o AllStatedEvents(Tail(payments), horizonEnd)

\* How many times e occurs in events.
Occurrences(events, e) == Cardinality({i \in 1..Len(events) : events[i] = e})

SameEvents(a, b) ==
  /\ Len(a) = Len(b)
  /\ \A i \in 1..Len(a) : Occurrences(a, a[i]) = Occurrences(b, a[i])

\* C21 as stated: the expanded list holds exactly the stated events of every
\* instruction, none skipped and none twice.
C21_Original ==
  InCall =>
    SameEvents(f.sortedPartPayments, AllStatedEvents(partPayments, f.originalEndDate))

\* C22 as stated: every expanded event is dated before the horizon end date,
\* the loan's start plus its months.
C22_Original ==
  InCall =>
    \A i \in 1..Len(f.sortedPartPayments) :
      NewDate(f.sortedPartPayments[i].year, f.sortedPartPayments[i].month)
        < f.originalEndDate

\* The whole amounts of the events of a month, added exactly.
RECURSIVE TotalOfMonth(_, _, _)
TotalOfMonth(events, month, year) ==
  IF events = <<>> THEN 0
  ELSE (IF Head(events).month = month /\ Head(events).year = year
          THEN Trunc(Head(events).amount) ELSE 0)
       + TotalOfMonth(Tail(events), month, year)

EventCount(events, month, year) ==
  Cardinality({i \in 1..Len(events) :
                 events[i].month = month /\ events[i].year = year})

\* C23: the partPayment of every schedule entry is the sum of the amounts of
\* all the expanded events of the entry's month and year, and 0 when the month
\* has no event.
C23_EntryCarriesSumOfMonth ==
  InCall =>
    \A i \in 1..Len(f.schedule) :
      LET entry == f.schedule[i]
      IN  /\ entry.partPayment =
               Num(TotalOfMonth(f.sortedPartPayments, entry.month, entry.year))
          /\ EventCount(f.sortedPartPayments, entry.month, entry.year) = 0
               => entry.partPayment = Zero

\* C23 witness: a finished schedule with a month of two events, whose entry
\* carries both amounts, and a month of no event.
C23_Witness ==
  /\ Done
  /\ \E i \in 1..Len(f.schedule) :
       /\ EventCount(f.sortedPartPayments, f.schedule[i].month, f.schedule[i].year) = 2
       /\ f.schedule[i].partPayment = Num(5100)
  /\ \E i \in 1..Len(f.schedule) :
       /\ EventCount(f.sortedPartPayments, f.schedule[i].month, f.schedule[i].year) = 0
       /\ f.schedule[i].partPayment = Zero

\* The scored scenarios' values of a metric, with the scenario's id.
MetricOf(id, metric) ==
  IF metric = "tenureMonths" THEN Num(results[id][metric]) ELSE results[id][metric]

SubScore(id, metric) ==
  LET b == Breakdown(scenarios, results)[id]
  IN  CASE metric = "emi" -> b.emi
        [] metric = "totalInterest" -> b.interest
        [] metric = "tenureMonths" -> b.tenure

Metrics == {"emi", "totalInterest", "tenureMonths"}
InPercentRange(x) == FGe(x, Zero) /\ FLe(x, Num(100))
Lowest(id, metric) ==
  \A other \in DOMAIN weightedResults.scores :
    FLe(MetricOf(id, metric), MetricOf(other, metric))
Highest(id, metric) ==
  \A other \in DOMAIN weightedResults.scores :
    FGe(MetricOf(id, metric), MetricOf(other, metric))

\* C24: whenever calculateWeightedScore gives a result, every sub-score and
\* every weighted score lies in 0..100; for each metric the scenario with the
\* lowest value has the sub-score 100, the one with the highest value has 0
\* unless all values are equal, and a lower value never has a lower sub-score;
\* the weighted score is 0.3 x emi + 0.5 x interest + 0.2 x tenure sub-score;
\* when the values of a metric are all equal every scenario has 100 for it.
C24_ScoresNormalized ==
  (build = WithoutScenarioPayments /\ weightedResults # Null) =>
    LET w == weightedResults
    IN  \A id \in DOMAIN w.scores :
          /\ InPercentRange(w.scores[id])
          /\ w.scores[id] =
               FAdd(FAdd(FMul(SubScore(id, "emi"), Dec(3, -1)),
                         FMul(SubScore(id, "totalInterest"), Dec(5, -1))),
                    FMul(SubScore(id, "tenureMonths"), Dec(2, -1)))
          /\ \A metric \in Metrics :
               /\ InPercentRange(SubScore(id, metric))
               /\ Lowest(id, metric) => SubScore(id, metric) = Num(100)
               /\ (Highest(id, metric) /\ ~Lowest(id, metric))
                    => SubScore(id, metric) = Zero
               /\ \A other \in DOMAIN w.scores :
                    FLe(MetricOf(id, metric), MetricOf(other, metric))
                      => FGe(SubScore(id, metric), SubScore(other, metric))

\* C24 witness: three scored scenarios, two of them identical; a scenario
\* with a sub-score strictly between 0 and 100 and a weighted score strictly
\* between 0 and 100, one with all three sub-scores 100.
C24_Witness ==
  /\ build = WithoutScenarioPayments
  /\ Settled
  /\ weightedResults # Null
  /\ Cardinality(DOMAIN weightedResults.scores) = 3
  /\ \E id \in DOMAIN weightedResults.scores :
       /\ \E metric \in Metrics :
            /\ FGt(SubScore(id, metric), Zero)
            /\ FLt(SubScore(id, metric), Num(100))
       /\ FGt(weightedResults.scores[id], Zero)
       /\ FLt(weightedResults.scores[id], Num(100))
  /\ \E id \in DOMAIN weightedResults.scores :
       \A metric \in Metrics : SubScore(id, metric) = Num(100)

\* C24 witness of the identical case: the effect has run on three identical
\* scenarios and each has 100 for every metric and as its weighted score.
C24_IdenticalWitness ==
  /\ build = WithoutScenarioPayments
  /\ Settled
  /\ weightedResults # Null
  /\ Cardinality(DOMAIN weightedResults.scores) = 3
  /\ AllIdentical
  /\ \A id \in DOMAIN weightedResults.scores :
       /\ weightedResults.scores[id] = Num(100)
       /\ \A metric \in Metrics : SubScore(id, metric) = Num(100)

C26_Original ==
  InCall =>
    \A i \in 1..Len(f.schedule) :
      f.schedule[i].remainingBalance =
        FSub(BalanceBefore(f.schedule, i),
             FAdd(f.schedule[i].principalAmount, f.schedule[i].partPayment))

\* The list of instructions without the one at position k.
Without(k) ==
  [i \in 1..(Len(partPayments) - 1) |->
     IF i < k THEN partPayments[i] ELSE partPayments[i + 1]]

\* No event of the instruction at position k is dated in a month of the
\* returned schedule.
NoEventSimulated(k) ==
  LET events == ExpandOne(partPayments[k], tenureYears, startMonth, startYear)
  IN  \A i \in 1..Len(events), j \in 1..Len(result.schedule) :
        ~(/\ events[i].month = result.schedule[j].month
          /\ events[i].year = result.schedule[j].year)

\* C27 as stated: an instruction none of whose events falls on a simulated
\* month has no effect, whatever its strategy: the call returns what it
\* returns without the instruction.
C27_Original ==
  Done =>
    \A k \in 1..Len(partPayments) :
      NoEventSimulated(k) =>
        result = calculateLoanEMI(principal, annualRate, tenureYears,
                                  startMonth, startYear, Without(k))

\* C28: while the comparison section is mounted its list holds exactly one
\* scenario of id "base", which is the first of the list and carries the main
\* loan's amount, rate and tenure, and the list holds at most 4 scenarios.
C28_OneBaseFirst ==
  Mounted =>
    /\ Len(scenarios) >= 1
    /\ Len(scenarios) <= 4
    /\ scenarios[1].id = BaseId
    /\ \A i \in 2..Len(scenarios) : scenarios[i].id # BaseId
    /\ scenarios[1].loanAmount = principal
    /\ scenarios[1].interestRate = annualRate
    /\ scenarios[1].loanTenure = tenureYears

\* C28 witness: the list is full (the base scenario and three more) after the
\* main loan's rate has changed to 10 and a scenario has been edited, and the
\* results are those of the list.
C28_Witness ==
  /\ Settled
  /\ Len(scenarios) = 4
  /\ annualRate = Num(10)
  /\ scenarios[1].interestRate = Num(10)
  /\ \E i \in 2..4 : scenarios[i].interestRate = Num(9)
  /\ \E i \in 2..4 : scenarios[i].interestRate = Num(12)
  /\ DOMAIN results = ScenarioIds

\* The list is in the order of (year, month), no two of its instructions
\* start in the same month of the same year, and every amount is above 0.
ListValid ==
  /\ \A i \in 1..(Len(partPayments) - 1) :
       ~Before(partPayments[i + 1], partPayments[i])
  /\ \A i, j \in 1..Len(partPayments) :
       (i # j) => ~(/\ partPayments[i].month = partPayments[j].month
                    /\ partPayments[i].year = partPayments[j].year)
  /\ \A i \in 1..Len(partPayments) : FGt(partPayments[i].amount, Zero)

\* An instruction starts in a month of the schedule shown, which is not
\* before the loan's start.
StartsInSchedule(payment) ==
  /\ payment.year * 12 + payment.month >= startYear * 12 + startMonth
  /\ payment.year * 12 + payment.month
       <= EndOf(loanSchedule, startMonth, startYear)[2] * 12
            + EndOf(loanSchedule, startMonth, startYear)[1]
  /\ \E k \in 1..Len(loanSchedule) :
       loanSchedule[k].month = payment.month /\ loanSchedule[k].year = payment.year

\* C29: from the empty list on, the list of the part-payment form is sorted
\* by (year, month), holds no two instructions of the same start month and
\* year and only amounts above 0, and every instruction a step puts into the
\* list starts between the loan's start and the last month of the schedule
\* shown at that step.
C29_ListKeptValid ==
  /\ [](form # <<>> => ListValid)
  /\ [][form # <<>> =>
          \A i \in 1..Len(partPayments') :
            (\A j \in 1..Len(partPayments) : partPayments[j] # partPayments'[i])
              => StartsInSchedule(partPayments'[i])]_vars

\* C29 witness: two instructions, the one added second (12/2023) sorted
\* before the one added first, after an update.
C29_Witness ==
  /\ form # <<>>
  /\ Len(partPayments) = 2
  /\ partPayments[1].id = 2
  /\ partPayments[2].id = 1
  /\ partPayments[1].year < partPayments[2].year
  /\ partPayments[1].month > partPayments[2].month
  /\ form.toast = "Part Payment Updated"

\* The "Add Payment" / "Update Payment" button is pressed next and every check
\* passes.
SavePasses ==
  /\ FormMounted
  /\ form.editingId # NoId \/ form.clock <= MaxSaves
  /\ FGt(form.newPayment.amount, Zero)
  /\ Validation(form.newPayment, form.editingId, partPayments, loanSchedule,
                startMonth, startYear) = ""

\* The step is one of that button: the list is replaced and not shortened.
SaveStep ==
  /\ SavePasses
  /\ pc' = "effect"
  /\ Len(partPayments') >= Len(partPayments)

\* C30 as stated: a save that passes the checks leaves in the list an
\* instruction of the form's month, year, amount, frequency and strategy, and
\* leaves the edit mode.
C30_Original ==
  [][SaveStep =>
       /\ \E i \in 1..Len(partPayments') :
            /\ partPayments'[i].month = form.newPayment.month
            /\ partPayments'[i].year = form.newPayment.year
            /\ partPayments'[i].amount = form.newPayment.amount
            /\ partPayments'[i].frequency = form.newPayment.frequency
            /\ partPayments'[i].strategy = form.newPayment.strategy
       /\ form'.editingId = NoId]_vars

====
